---- MODULE Spec2Model ----
(***************************************************************************)
(* Credential & quota synchronisation engine of AntigravityQuotaWatcher    *)
(* Desktop: TokenStorage and CallbackServer (auth/tokenStorage.ts,         *)
(* auth/callbackServer.ts), GoogleAuthService (auth/googleAuthService.ts), *)
(* QuotaService (quota/quotaService.ts) and the AuthState listener of      *)
(* main/index.ts.                                                          *)
(*                                                                         *)
(* The program runs on one JavaScript event loop: every action below is    *)
(* one run-to-completion step, from the resumption of an await (or the     *)
(* arrival of an IPC call, a timer or an HTTP request) to the next await.  *)
(*                                                                         *)
(* Eleven specifications share the variables:                              *)
(*   Spec          GoogleAuthService + TokenStorage + CallbackServer; the  *)
(*                 poller is the environment that calls                    *)
(*                 getValidAccessToken.                                    *)
(*   SpecPoll      QuotaService + the token refresh it triggers + the      *)
(*                 AuthState listener of index.ts.                         *)
(*   SpecCallback  the request handler of CallbackServer.waitForCallback   *)
(*                 as a function of the request.                           *)
(*   SpecStore     TokenStorage.deleteAccount and isTokenExpired called on *)
(*                 their own, over bounded rosters and tokens.             *)
(*   SpecLive      Spec with the fairness the runtime gives the awaits of  *)
(*                 login().                                                *)
(*   SpecNotify    the listener sets of GoogleAuthService and the two      *)
(*                 setters that broadcast to them.                         *)
(*   SpecKiroAuth  KiroAuthService: the credential file and its loads.     *)
(*   SpecLevel     getQuotaLevel as a function of its arguments.           *)
(*   SpecKiroQuota KiroQuotaService fetch cycles, their status events and  *)
(*                 the 'reload-kiro-auth' handler.                         *)
(*   SpecKiroNotify KiroAuthService's listener array and the broadcast of  *)
(*                 loadCredentials.                                        *)
(*   SpecActive    initialize(), login(), logout and setActiveAccount: the *)
(*                 operations that write the roster and the active id.     *)
(***************************************************************************)
EXTENDS Integers, Sequences, FiniteSets, TLC

\* ------------------------------------------------------------------ bounds
MaxLogins == 2      \* login() calls in one behaviour
MaxCalls == 1       \* direct getValidAccessToken() calls awaiting a refresh at a time
MaxNow == 1         \* clock ticks in one behaviour
MaxCycles == 2      \* fetch cycles in one behaviour
MaxExpiry == 3      \* largest expiresAt of a stored token (SpecStore)
MaxBuffer == 2      \* largest bufferMs passed to isTokenExpired (SpecStore)
MaxPercentage == 100 \* largest percentage passed to getQuotaLevel (SpecLevel)
MaxListeners == 3   \* listeners subscribed at a time, both channels together (SpecNotify)

\* --------------------------------------------------------- program constants
MAX_RETRIES == 3
\* RETRY_DELAY_MS, in seconds
RETRY_DELAY == 5
\* DEFAULT_TOKEN_EXPIRY_BUFFER_MS, in clock units of five minutes
DEFAULT_TOKEN_EXPIRY_BUFFER == 1
CALLBACK_PATH == "/callback"

\* ------------------------------------------------------------------ values
Null == "<null>"            \* JavaScript null / undefined
Truthy(s) == s # Null /\ s # ""

AccountIds == {"u1", "u2"}
RefreshTokens == {"r1"}
ExpiresIn == {2}            \* expires_in of a token response, in clock units

\* enum AuthState
NOT_AUTHENTICATED == "not_authenticated"
AUTHENTICATING == "authenticating"
AUTHENTICATED == "authenticated"
TOKEN_EXPIRED == "token_expired"
REFRESHING == "refreshing"
AUTH_ERROR == "error"

\* enum LoginFlowState
IDLE == "idle"
PREPARING == "preparing"
OPENING_BROWSER == "opening_browser"
WAITING_AUTH == "waiting_auth"
EXCHANGING_TOKEN == "exchanging_token"
SUCCESS == "success"
FLOW_ERROR == "flow_error"
CANCELLED == "cancelled"

VARIABLES
  \* TokenStorage (electron-store 'auth')
  accounts,         \* ACCOUNTS_STORAGE_KEY: sequence of [id, email]
  tokens,           \* TOKEN_STORAGE_KEY: account id -> encrypted token or NoEntry
  activeAccountId,  \* 'activeAccountId': an id or Null
  now,              \* Date.now(), in clock units
  \* GoogleAuthService
  booted,           \* position of initialize(): "new", "refreshing", "ready"
  currentState,     \* AuthState
  loginFlowState,   \* LoginFlowState
  loginCancelled,   \* boolean
  callbackServer,   \* this.callbackServer: 0 (null) or the login whose server it is
  server,           \* CallbackServer created by login l: "none", "starting", "listening", "closed"
  login,            \* the login() calls
  call,             \* the direct getValidAccessToken() calls
  \* QuotaService
  isPolling, retryCount,
  timers,           \* number of live setInterval timers created by startPolling
  pollingTimer,     \* this.pollingTimer is non-null
  quotaCache,       \* account id -> number of the snapshot cached (0: none)
  cycle,            \* the fetchAllAccountsQuota() runs
  events,           \* what the last step of the poller published, in order
  \* CallbackServer request handler, as a function (SpecCallback)
  cb,
  \* the last TokenStorage call made on its own, with its result (SpecStore)
  probe,
  \* the listener sets of GoogleAuthService and the deliveries of the last
  \* setter call (SpecNotify)
  bus,
  \* KiroAuthService: the credential file, this.credentials and the last
  \* initialize()/reload() call (SpecKiroAuth)
  kiroAuth,
  \* GoogleAuthService, the login-flow info
  currentAuthUrl,   \* this.currentAuthUrl: 0 (undefined) or the login that built it
  flowEvents,       \* the LoginFlowInfo broadcasts of the last step, in order
  \* KiroQuotaService (SpecKiroQuota)
  kiroQuota,
  \* KiroAuthService.authStateListeners and the last notifyAuthStateChange (SpecKiroNotify)
  kiroListeners

authVars == <<accounts, tokens, activeAccountId, now, booted, currentState,
              loginFlowState, loginCancelled, callbackServer, server, login, call>>
pollVars == <<isPolling, retryCount, timers, pollingTimer, quotaCache, cycle, events>>
flowVars == <<currentAuthUrl, flowEvents>>
kiroVars == <<kiroAuth, kiroQuota, kiroListeners>>
vars == <<authVars, pollVars, cb, probe, bus, kiroVars, flowVars>>

\* ------------------------------------------------------------ TokenStorage
NoEntry == <<>>
Encrypt(data) == <<"base64", data>>
Decrypt(encrypted) == encrypted[2]

TokenData(access, refresh, expiresAt) ==
  [accessToken |-> access, refreshToken |-> refresh, expiresAt |-> expiresAt]
NoToken == TokenData(Null, Null, 0)

\* getToken: null (here NoToken) when no entry is stored
HasToken(tks, id) == tks[id] # NoEntry
GetToken(tks, id) == IF tks[id] = NoEntry THEN NoToken ELSE Decrypt(tks[id])

SaveToken(tks, id, token) == [tks EXCEPT ![id] = Encrypt(token)]

DeleteToken_Mutant(tks, id) == tks

\* deleteToken: delete tokens[accountId]
DeleteToken(tks, id) == [tks EXCEPT ![id] = NoEntry]

IsTokenExpired_Mutant(tks, id, bufferMs, t) ==
  IF ~HasToken(tks, id) THEN TRUE ELSE t + bufferMs > GetToken(tks, id).expiresAt

IsTokenExpired(tks, id, bufferMs, t) ==
  IF ~HasToken(tks, id) THEN TRUE ELSE t + bufferMs >= GetToken(tks, id).expiresAt

UpdateAccessToken_Mutant(tks, id, accessToken, expiresIn, t) ==
  SaveToken(tks, id, TokenData(accessToken, Null, t + expiresIn))

\* updateAccessToken, for an id that has a token (the caller handles the throw)
UpdateAccessToken(tks, id, accessToken, expiresIn, t) ==
  SaveToken(tks, id, [GetToken(tks, id) EXCEPT !.accessToken = accessToken,
                                               !.expiresAt = t + expiresIn])

Ids(accs) == {accs[i].id : i \in 1..Len(accs)}
IndexOf(accs, id) == CHOOSE i \in 1..Len(accs) : accs[i].id = id

SaveAccount_Mutant(accs, account) == Append(accs, account)

\* saveAccount: findIndex by id, overwrite in place or push
SaveAccount(accs, account) ==
  IF account.id \in Ids(accs)
  THEN [accs EXCEPT ![IndexOf(accs, account.id)] = account]
  ELSE Append(accs, account)

Filtered(accs, id) == SelectSeq(accs, LAMBDA a : a.id # id)

HasAnyAccount(accs) == Len(accs) > 0

ActiveAfterDelete_Mutant(accs, active, id) ==
  IF Len(Filtered(accs, id)) > 0 THEN Filtered(accs, id)[1].id ELSE Null

\* deleteAccount: the active id after deleting id
ActiveAfterDelete(accs, active, id) ==
  IF active = id
  THEN IF Len(Filtered(accs, id)) > 0 THEN Filtered(accs, id)[1].id ELSE Null
  ELSE active

\* ---------------------------------------------------------- CallbackServer
Request(path, code, state, error) ==
  [path |-> path, code |-> code, state |-> state, error |-> error]

HandleRequest_Mutant(req, expectedState) ==
  IF req.path # CALLBACK_PATH THEN "notFound"
  ELSE IF Truthy(req.error) THEN "oauthError"
  ELSE IF ~Truthy(req.code) THEN "missingCode"
  ELSE "resolved"

\* the 'request' handler of waitForCallback: what it does with the promise
HandleRequest(req, expectedState) ==
  IF req.path # CALLBACK_PATH THEN "notFound"
  ELSE IF Truthy(req.error) THEN "oauthError"
  ELSE IF ~Truthy(req.code) THEN "missingCode"
  ELSE IF req.state # expectedState THEN "stateMismatch"
  ELSE "resolved"

\* how the handler settles the promise of waitForCallback
Settle(outcome) == IF outcome = "resolved" THEN "resolved" ELSE "rejected"

\* CallbackServer.stop() on the server created by login s (0: no server)
Stop(srv, s) ==
  IF s # 0 /\ srv[s] \in {"starting", "listening"}
  THEN [srv EXCEPT ![s] = "closed"] ELSE srv


\* -------------------------------------------------------- GoogleAuthService
Logins == 1..MaxLogins
Calls == 1..MaxCalls

\* the CSRF state token login l generates (crypto.randomBytes: distinct per call)
StateOf(l) == IF l = 1 THEN "s1" ELSE IF l = 2 THEN "s2" ELSE "s3"

NewLogin ==
  [pc |-> "idle", srv |-> 0, prom |-> "none", tok |-> NoToken, ret |-> "none",
   pre |-> Null, cancelled |-> FALSE, noRefresh |-> FALSE, browser |-> "none"]
NewCall == [pc |-> "idle", id |-> Null]

InFlight(l) == login[l].pc \notin {"idle", "done"}

\* token endpoint responses (makeTokenRequest): a JSON body, or a rejection
TokenResponse(kind, access, refresh, expiresIn) ==
  [kind |-> kind, access_token |-> access, refresh_token |-> refresh,
   expires_in |-> expiresIn]
TokenFailure == TokenResponse("error", Null, Null, 0)
ExchangeResponses ==
  {TokenResponse("ok", a, r, e) :
     a \in {"a1"}, r \in RefreshTokens \cup {Null, ""}, e \in ExpiresIn}
  \cup {TokenFailure}
RefreshResponses ==
  {TokenResponse("ok", a, Null, e) : a \in {"a2"}, e \in ExpiresIn}
  \cup {TokenFailure}

\* profile endpoint responses (fetchUserInfo)
UserInfoFailure == [id |-> Null, email |-> Null]
UserInfoResponses ==
  {[id |-> "u1", email |-> "e2"], [id |-> "u2", email |-> "e1"], UserInfoFailure}

ExchangeThrows_Mutant(resp) == resp.kind # "ok"

\* exchangeCodeForToken: TRUE when it throws
ExchangeThrows(resp) == resp.kind # "ok" \/ ~Truthy(resp.refresh_token)
ExchangeToken(resp, t) ==
  TokenData(resp.access_token, resp.refresh_token, t + resp.expires_in)

\* cancelLogin / login's catch: "restore the previous auth state"
RestoredState(accs) ==
  IF HasAnyAccount(accs) THEN AUTHENTICATED ELSE NOT_AUTHENTICATED

\* refreshToken up to its await: TRUE when it throws 'No refresh token available'
RefreshThrows(tks, id) == ~Truthy(GetToken(tks, id).refreshToken)

\* refreshToken after makeTokenRequest settled
RefreshOk_Mutant(tks, id, resp) == resp.kind = "ok"

\* TRUE when neither makeTokenRequest nor updateAccessToken throws
RefreshOk(tks, id, resp) == resp.kind = "ok" /\ HasToken(tks, id)
RefreshTokens2_Mutant(tks, id, resp, t) ==
  IF RefreshOk(tks, id, resp)
  THEN UpdateAccessToken(tks, id, resp.access_token, resp.expires_in, t)
  ELSE DeleteToken(tks, id)

RefreshTokens2(tks, id, resp, t) ==
  IF RefreshOk(tks, id, resp)
  THEN UpdateAccessToken(tks, id, resp.access_token, resp.expires_in, t)
  ELSE tks
RefreshState(tks, id, resp) ==
  IF RefreshOk(tks, id, resp) THEN AUTHENTICATED ELSE TOKEN_EXPIRED

\* getValidAccessToken up to its first await
TargetId(accountId) == IF Truthy(accountId) THEN accountId ELSE activeAccountId
Gvat(accountId) ==
  LET id == TargetId(accountId) IN
  IF ~Truthy(id) THEN [out |-> "noActive", state |-> currentState]
  ELSE IF ~HasToken(tokens, id) THEN [out |-> "notAuth", state |-> NOT_AUTHENTICATED]
  ELSE IF IsTokenExpired(tokens, id, DEFAULT_TOKEN_EXPIRY_BUFFER, now)
       THEN IF RefreshThrows(tokens, id)
            THEN [out |-> "refreshFailed", state |-> TOKEN_EXPIRED]
            ELSE [out |-> "await", state |-> REFRESHING]
  ELSE [out |-> "ok", state |-> currentState]

\* getLoginFlowInfo(): what a login-flow listener receives
FlowInfo(state, url) == [state |-> state, authUrl |-> url]

\* a step that calls no setLoginFlowState and leaves this.currentAuthUrl alone
NoBroadcast == flowEvents' = <<>> /\ UNCHANGED currentAuthUrl

\* ---- initialize()
Initialize ==
  /\ booted = "new"
  /\ IF HasAnyAccount(accounts)
     THEN IF Truthy(activeAccountId)
             /\ IsTokenExpired(tokens, activeAccountId, DEFAULT_TOKEN_EXPIRY_BUFFER, now)
             /\ ~RefreshThrows(tokens, activeAccountId)
          THEN booted' = "refreshing" /\ currentState' = REFRESHING
          ELSE booted' = "ready" /\ currentState' = AUTHENTICATED
     ELSE booted' = "ready" /\ currentState' = NOT_AUTHENTICATED
  /\ UNCHANGED <<accounts, tokens, activeAccountId, now, loginFlowState,
                 loginCancelled, callbackServer, server, login, call, pollVars, cb, probe, bus, kiroVars>>
  /\ NoBroadcast

InitializeRefreshed ==
  /\ booted = "refreshing"
  /\ \E resp \in RefreshResponses :
       tokens' = RefreshTokens2(tokens, activeAccountId, resp, now)
  /\ booted' = "ready"
  /\ currentState' = AUTHENTICATED
  /\ UNCHANGED <<accounts, activeAccountId, now, loginFlowState,
                 loginCancelled, callbackServer, server, login, call, pollVars, cb, probe, bus, kiroVars>>
  /\ NoBroadcast

\* ---- login()
\* the catch and finally blocks of login(), entered by login l whose record is
\* lg, after the broadcasts pre of the same step left this.currentAuthUrl = url
LoginCatchAfter(l, lg, srv, pre, url) ==
  /\ loginFlowState' = IF loginCancelled THEN CANCELLED ELSE FLOW_ERROR
  /\ flowEvents' = Append(pre, FlowInfo(loginFlowState', url))
  /\ currentAuthUrl' = 0
  /\ currentState' = IF loginCancelled THEN RestoredState(accounts) ELSE AUTH_ERROR
  /\ server' = Stop(srv, callbackServer)
  /\ callbackServer' = 0
  /\ login' = [login EXCEPT ![l] =
                 [lg EXCEPT !.pc = "done", !.ret = "false", !.tok = NoToken,
                            !.pre = Null, !.browser = "none"]]
  /\ UNCHANGED <<accounts, tokens, activeAccountId, loginCancelled>>

LoginCatch(l, lg, srv) == LoginCatchAfter(l, lg, srv, <<>>, currentAuthUrl)

\* the guard of login(): TRUE when the call is rejected
LoginRejected == currentState = AUTHENTICATING

LoginCall(l) ==
  /\ booted = "ready"
  /\ login[l].pc = "idle"
  /\ \A k \in Logins : k < l => login[k].pc # "idle"
  /\ IF LoginRejected
     THEN /\ login' = [login EXCEPT ![l] =
                         [@ EXCEPT !.pc = "done", !.ret = "false"]]
          /\ flowEvents' = <<>>
          /\ UNCHANGED <<currentState, loginFlowState, loginCancelled,
                         callbackServer, server>>
     ELSE /\ loginCancelled' = FALSE
          /\ currentState' = AUTHENTICATING
          /\ loginFlowState' = PREPARING
          /\ flowEvents' = <<FlowInfo(PREPARING, currentAuthUrl)>>
          /\ callbackServer' = l
          /\ server' = [server EXCEPT ![l] = "starting"]
          /\ login' = [login EXCEPT ![l] =
                         [@ EXCEPT !.pc = "startServer", !.pre = currentState]]
  /\ UNCHANGED <<accounts, tokens, activeAccountId, now, booted, call, pollVars, cb, probe, bus, kiroVars>>
  /\ UNCHANGED currentAuthUrl

\* startServer() resolves: the listen callback ran on a server that was not stopped
StartServerResolved(l) ==
  /\ login[l].pc = "startServer"
  /\ server[l] = "starting"
  /\ LET srv == [server EXCEPT ![l] = "listening"] IN
     IF callbackServer = 0 \/ srv[callbackServer] # "listening" \/ loginCancelled
     THEN \* getRedirectUri throws, or the cancellation check throws
          LoginCatch(l, login[l], srv)
     ELSE /\ login' = [login EXCEPT ![l] =
                         [@ EXCEPT !.pc = "openBrowser", !.srv = callbackServer,
                                   !.prom = "pending"]]
          /\ loginFlowState' = OPENING_BROWSER
          /\ currentAuthUrl' = l
          /\ flowEvents' = <<FlowInfo(OPENING_BROWSER, l)>>
          /\ server' = srv
          /\ UNCHANGED <<accounts, tokens, activeAccountId, currentState,
                         loginCancelled, callbackServer>>
  /\ UNCHANGED <<now, booted, call, pollVars, cb, probe, bus, kiroVars>>

\* startServer() rejects (the server's 'error' event)
StartServerRejected(l) ==
  /\ login[l].pc = "startServer"
  /\ LoginCatch(l, login[l], server)
  /\ UNCHANGED <<now, booted, call, pollVars, cb, probe, bus, kiroVars>>

BrowserFailureThrows_Mutant(opened) == ~opened

\* the try/catch around shell.openExternal and its fallback: TRUE when a
\* failure to open the browser reaches the catch block of login()
BrowserFailureThrows(opened) == FALSE

\* shell.openExternal settles; opened is browserOpened after the fallback
OpenBrowserWith(l, opened) ==
  /\ login[l].pc = "openBrowser"
  /\ IF BrowserFailureThrows(opened)
     THEN LoginCatch(l, login[l], server)
     ELSE IF loginCancelled
     THEN LoginCatchAfter(l, login[l], server, <<FlowInfo(WAITING_AUTH, l)>>, l)
     ELSE /\ login' = [login EXCEPT ![l] =
                         [@ EXCEPT !.pc = "waitCallback",
                                   !.browser = IF opened THEN "opened" ELSE "failed"]]
          /\ loginFlowState' = WAITING_AUTH
          /\ currentAuthUrl' = l
          /\ flowEvents' = <<FlowInfo(WAITING_AUTH, l)>>
          /\ UNCHANGED <<accounts, tokens, activeAccountId, currentState,
                         loginCancelled, callbackServer, server>>
  /\ UNCHANGED <<now, booted, call, pollVars, cb, probe, bus, kiroVars>>

OpenBrowserDone(l) == \E opened \in BOOLEAN : OpenBrowserWith(l, opened)

\* an HTTP request reaches the listening server s: every handler registered on it runs
Requests ==
  {Request(p, c, st, e) :
     p \in {CALLBACK_PATH, "/favicon.ico"}, c \in {Null, "", "code"},
     st \in {Null, "forged"} \cup {StateOf(l) : l \in Logins}, e \in {Null, "access_denied"}}

CallbackRequestWith(s, req) ==
  /\ server[s] = "listening"
  /\ server' = IF req.path = CALLBACK_PATH /\ \E l \in Logins : login[l].srv = s
               THEN Stop(server, s) ELSE server
  /\ login' = [l \in Logins |->
                 IF login[l].srv = s /\ login[l].prom = "pending"
                    /\ HandleRequest(req, StateOf(l)) # "notFound"
                 THEN [login[l] EXCEPT !.prom = Settle(HandleRequest(req, StateOf(l)))]
                 ELSE login[l]]
  /\ UNCHANGED <<accounts, tokens, activeAccountId, now, booted, currentState,
                 loginFlowState, loginCancelled, callbackServer, call, pollVars, cb, probe, bus, kiroVars>>
  /\ NoBroadcast

CallbackRequest(s) == \E req \in Requests : CallbackRequestWith(s, req)

\* the AUTH_TIMEOUT_MS timer of login l's waitForCallback fires
CallbackTimeout(l) ==
  /\ login[l].prom = "pending"
  /\ login' = [login EXCEPT ![l] = [@ EXCEPT !.prom = "rejected"]]
  /\ server' = Stop(server, login[l].srv)
  /\ UNCHANGED <<accounts, tokens, activeAccountId, now, booted, currentState,
                 loginFlowState, loginCancelled, callbackServer, call, pollVars, cb, probe, bus, kiroVars>>
  /\ NoBroadcast

\* `await callbackPromise` resumes
CallbackSettled(l) ==
  /\ login[l].pc = "waitCallback"
  /\ login[l].prom \notin {"none", "pending"}
  /\ IF login[l].prom # "resolved" \/ loginCancelled
     THEN LoginCatch(l, login[l], server)
     ELSE /\ login' = [login EXCEPT ![l] =
                         [@ EXCEPT !.pc = "exchange", !.browser = "none"]]
          /\ loginFlowState' = EXCHANGING_TOKEN
          /\ currentAuthUrl' = l
          /\ flowEvents' = <<FlowInfo(EXCHANGING_TOKEN, l)>>
          /\ UNCHANGED <<accounts, tokens, activeAccountId, currentState,
                         loginCancelled, callbackServer, server>>
  /\ UNCHANGED <<now, booted, call, pollVars, cb, probe, bus, kiroVars>>

\* a token response that is a JSON body without a refresh_token
LacksRefreshToken(resp) == resp.kind = "ok" /\ ~Truthy(resp.refresh_token)

\* exchangeCodeForToken settles with resp
ExchangeWith(l, resp) ==
  /\ login[l].pc = "exchange"
  /\ IF ExchangeThrows(resp)
     THEN LoginCatch(l, [login[l] EXCEPT !.noRefresh = LacksRefreshToken(resp)], server)
     ELSE /\ login' = [login EXCEPT ![l] =
                         [@ EXCEPT !.pc = "userInfo", !.tok = ExchangeToken(resp, now),
                                   !.noRefresh = LacksRefreshToken(resp)]]
          /\ NoBroadcast
          /\ UNCHANGED <<accounts, tokens, activeAccountId, currentState,
                         loginFlowState, loginCancelled, callbackServer, server>>
  /\ UNCHANGED <<now, booted, call, pollVars, cb, probe, bus, kiroVars>>

ExchangeDone(l) == \E resp \in ExchangeResponses : ExchangeWith(l, resp)

LoginSave_Mutant(l, info) ==
  /\ accounts' = SaveAccount(accounts, info)
  /\ tokens' = SaveToken(tokens, info.id, login[l].tok)
  /\ activeAccountId' = activeAccountId

\* what login() stores once fetchUserInfo resolved
LoginSave(l, info) ==
  /\ accounts' = SaveAccount(accounts, info)
  /\ tokens' = SaveToken(tokens, info.id, login[l].tok)
  /\ activeAccountId' = info.id

\* fetchUserInfo settles with info
UserInfoWith(l, info) ==
  /\ login[l].pc = "userInfo"
  /\ IF info = UserInfoFailure
     THEN LoginCatch(l, login[l], server)
     ELSE /\ LoginSave(l, info)
          /\ currentState' = AUTHENTICATED
          /\ loginFlowState' = SUCCESS
          /\ flowEvents' = <<FlowInfo(SUCCESS, currentAuthUrl)>>
          /\ currentAuthUrl' = 0
          /\ server' = Stop(server, callbackServer)
          /\ callbackServer' = 0
          /\ login' = [login EXCEPT ![l] =
                         [@ EXCEPT !.pc = "done", !.ret = "true", !.tok = NoToken,
                                   !.pre = Null]]
          /\ UNCHANGED loginCancelled
  /\ UNCHANGED <<now, booted, call, pollVars, cb, probe, bus, kiroVars>>

UserInfoDone(l) == \E info \in UserInfoResponses : UserInfoWith(l, info)

\* ---- cancelLogin()
CancelLogin ==
  /\ booted = "ready"
  /\ \E l \in Logins : InFlight(l)     \* the login dialog offers it while a flow runs
  /\ loginCancelled' = TRUE
  /\ server' = Stop(server, callbackServer)
  /\ callbackServer' = 0
  /\ loginFlowState' = CANCELLED
  /\ flowEvents' = <<FlowInfo(CANCELLED, currentAuthUrl)>>
  /\ UNCHANGED currentAuthUrl
  /\ currentState' = RestoredState(accounts)
  /\ login' = [l \in Logins |->
                 IF InFlight(l)
                 THEN [login[l] EXCEPT !.cancelled = TRUE] ELSE login[l]]
  /\ UNCHANGED <<accounts, tokens, activeAccountId, now, booted, call, pollVars, cb, probe, bus, kiroVars>>

\* ---- logout(accountId?)
Logout(accountId) ==
  /\ booted = "ready"
  /\ LET id == TargetId(accountId) IN
     IF Truthy(id)
     THEN /\ accounts' = Filtered(accounts, id)
          /\ tokens' = DeleteToken(tokens, id)
          /\ activeAccountId' = ActiveAfterDelete(accounts, activeAccountId, id)
     ELSE UNCHANGED <<accounts, tokens, activeAccountId>>
  /\ currentState' = IF Len(accounts') = 0 THEN NOT_AUTHENTICATED ELSE currentState
  /\ UNCHANGED <<now, booted, loginFlowState, loginCancelled, callbackServer,
                 server, login, call, pollVars, cb, probe, bus, kiroVars>>
  /\ NoBroadcast

\* ---- getValidAccessToken(accountId?), called directly
GetValidAccessToken(c, accountId) ==
  /\ booted = "ready"
  /\ accountId = Null \/ accountId \in Ids(accounts)   \* callers pass roster ids
  /\ call[c].pc = "idle"
  /\ \A k \in Calls : k < c => call[k].pc # "idle"
  /\ currentState' = Gvat(accountId).state
  /\ call' = [call EXCEPT ![c] =
                IF Gvat(accountId).out = "await"
                THEN [pc |-> "refreshing", id |-> TargetId(accountId)]
                ELSE NewCall]
  /\ UNCHANGED <<accounts, tokens, activeAccountId, now, booted, loginFlowState,
                 loginCancelled, callbackServer, server, login, pollVars, cb, probe, bus, kiroVars>>
  /\ NoBroadcast

\* the makeTokenRequest of its refreshToken settles
CallRefreshed(c) ==
  /\ call[c].pc = "refreshing"
  /\ \E resp \in RefreshResponses :
       /\ tokens' = RefreshTokens2(tokens, call[c].id, resp, now)
       /\ currentState' = RefreshState(tokens, call[c].id, resp)
       /\ call' = [call EXCEPT ![c] = NewCall]
  /\ UNCHANGED <<accounts, activeAccountId, now, booted, loginFlowState,
                 loginCancelled, callbackServer, server, login, pollVars, cb, probe, bus, kiroVars>>
  /\ NoBroadcast

\* ---- the clock
Tick ==
  /\ now < MaxNow
  /\ now' = now + 1
  /\ UNCHANGED <<accounts, tokens, activeAccountId, booted, currentState,
                 loginFlowState, loginCancelled, callbackServer, server, login,
                 call, pollVars, cb, probe, bus, kiroVars>>
  /\ NoBroadcast


\* ------------------------------------------------------------ QuotaService
Cycles == 1..MaxCycles

\* what a fetch can throw: a GoogleApiError with a status, or a plain Error
ApiError(status) == [api |-> TRUE, status |-> status]
PlainError == [api |-> FALSE, status |-> 0]
IsRetryable(e) == e.status >= 500 \/ e.status = 429
NeedsReauth(e) == e.status = 401

\* what loadProjectInfo + fetchModelsQuota end with: a snapshot, or an error
ApiOk(snap) == [ok |-> TRUE, snap |-> snap, err |-> PlainError]
ApiFail(e) == [ok |-> FALSE, snap |-> 0, err |-> e]
ApiResponses ==
  {ApiOk(v) : v \in {1, 2}}
  \cup {ApiFail(ApiError(st)) : st \in {401, 403, 429, 503}}
  \cup {ApiFail(PlainError)}

NewCycle ==
  [pc |-> "idle", kind |-> Null, accs |-> <<>>, i |-> 0,
   tries |-> 0, errs |-> 0, reauth |-> FALSE, wait |-> 0]

\* The state one run-to-completion step of the poller reads and writes. ok turns
\* FALSE when the step needs more than the model's bounds allow.
Machine ==
  [isPolling |-> isPolling, retryCount |-> retryCount, timers |-> timers,
   pollingTimer |-> pollingTimer, quotaCache |-> quotaCache, cycle |-> cycle,
   currentState |-> currentState, tokens |-> tokens, accounts |-> accounts,
   events |-> <<>>, ok |-> TRUE]

Commit(m) ==
  /\ m.ok
  /\ isPolling' = m.isPolling
  /\ retryCount' = m.retryCount
  /\ timers' = m.timers
  /\ pollingTimer' = m.pollingTimer
  /\ quotaCache' = m.quotaCache
  /\ cycle' = m.cycle
  /\ currentState' = m.currentState
  /\ tokens' = m.tokens
  /\ accounts' = m.accounts
  /\ events' = m.events

HasFreeCycle(m) == \E c \in Cycles : m.cycle[c].pc = "idle"
FreeCycle(m) == CHOOSE c \in Cycles :
  m.cycle[c].pc = "idle" /\ \A k \in Cycles : k < c => m.cycle[k].pc # "idle"

CurrentId(m, c) == m.cycle[c].accs[m.cycle[c].i]

\* What a cycle publishes when it is done with an account: the update or error
\* callback it called (out), why, the failures of the retryable class the fetch
\* met, the error callbacks called for the fetch so far, and the retry counter
\* and the cache entry right after.
Event(m, c, out, why, fails, snap) ==
  [cycle |-> c, id |-> CurrentId(m, c), out |-> out, why |-> why, fails |-> fails,
   errs |-> m.cycle[c].errs, snap |-> snap, rc |-> m.retryCount,
   cached |-> m.quotaCache[CurrentId(m, c)]]
Emit_Mutant(m, c, out, why, fails, snap) ==
  [m EXCEPT !.events = Append(Append(@, Event(m, c, out, why, fails, snap)),
                              Event(m, c, "error", why, fails, snap))]

Emit(m, c, out, why, fails, snap) ==
  [m EXCEPT !.events = Append(@, Event(m, c, out, why, fails, snap))]

\* errorCallback(accountId, error)
ErrorCallback(m, c) == [m EXCEPT !.cycle[c].errs = @ + 1]

\* stopPolling()
StopPollingM(m) ==
  [m EXCEPT !.timers = IF m.pollingTimer THEN @ - 1 ELSE @,
            !.pollingTimer = FALSE, !.isPolling = FALSE, !.retryCount = 0]

\* the end of fetchAllAccountsQuota and, in startPolling, the setInterval after it
FinishCycle(m, c) ==
  LET done == [NewCycle EXCEPT !.pc = "done", !.reauth = m.cycle[c].reauth]
  IN IF m.cycle[c].kind = "poll"
     THEN [m EXCEPT !.cycle[c] = done, !.timers = @ + 1, !.pollingTimer = TRUE]
     ELSE [m EXCEPT !.cycle[c] = done]

AfterSuccess_Mutant(n) == n

\* the retry counter after a successful fetch
AfterSuccess(n) == 0

\* the retry counter after the fetch that exhausted it
AfterExhausted(n) == 0

RECURSIVE SetStateM(_, _), StartPollingM(_), BeginCycle(_, _, _), FetchStart(_, _)
RECURSIVE HandleFetchError(_, _, _), NextAccount(_, _)

AwaitDelay_Mutant(m, c) == NextAccount(m, c)

\* the argument of this.delay(...) before retry number n, in seconds
RetryDelay(n) == RETRY_DELAY

\* `await this.delay(RETRY_DELAY_MS)`: the cycle waits for the retry delay
AwaitDelay(m, c) ==
  [m EXCEPT !.cycle[c].pc = "delay", !.cycle[c].wait = RetryDelay(m.cycle[c].tries)]

\* setState with the listener of index.ts: startPolling on AUTHENTICATED,
\* stopPolling on NOT_AUTHENTICATED
SetStateM(m, state) ==
  LET m1 == [m EXCEPT !.currentState = state] IN
  IF state = AUTHENTICATED THEN StartPollingM(m1)
  ELSE IF state = NOT_AUTHENTICATED THEN StopPollingM(m1)
  ELSE m1

\* startPolling() up to the first await of its initial fetch
StartPollingM(m) ==
  IF m.isPolling \/ m.currentState # AUTHENTICATED THEN m
  ELSE IF ~HasFreeCycle(m) THEN [m EXCEPT !.ok = FALSE]
  ELSE BeginCycle([m EXCEPT !.isPolling = TRUE], FreeCycle(m), "poll")

\* fetchAllAccountsQuota() up to its first await
BeginCycle(m, c, kind) ==
  LET ids == [k \in 1..Len(m.accounts) |-> m.accounts[k].id]
      m1 == [m EXCEPT !.cycle[c] = [NewCycle EXCEPT !.pc = "run", !.kind = kind,
                                                    !.accs = ids, !.i = 1]]
  IN IF Len(ids) = 0 THEN FinishCycle(m1, c) ELSE FetchStart(m1, c)

\* fetchAccountQuota up to its first await: getValidAccessToken
FetchStart(m, c) ==
  LET id == CurrentId(m, c) IN
  IF ~HasToken(m.tokens, id)
  THEN HandleFetchError(SetStateM(m, NOT_AUTHENTICATED), c, PlainError)
  ELSE IF IsTokenExpired(m.tokens, id, DEFAULT_TOKEN_EXPIRY_BUFFER, now)
       THEN IF RefreshThrows(m.tokens, id)
            THEN HandleFetchError([m EXCEPT !.currentState = TOKEN_EXPIRED], c, PlainError)
            ELSE [m EXCEPT !.currentState = REFRESHING, !.cycle[c].pc = "token"]
  ELSE [m EXCEPT !.cycle[c].pc = "api"]

\* handleFetchError up to its delay, or to its return and the rest of the cycle
HandleFetchError(m, c, error) ==
  IF error.api /\ NeedsReauth(error)
  THEN LET m1 == [ErrorCallback(StopPollingM(m), c) EXCEPT !.cycle[c].reauth = TRUE]
       IN NextAccount(Emit(m1, c, "error", "reauth", m.cycle[c].tries, 0), c)
  ELSE IF error.api /\ ~IsRetryable(error)
  THEN NextAccount(Emit(ErrorCallback(m, c), c, "error", "nonRetryable",
                        m.cycle[c].tries, 0), c)
  ELSE IF m.retryCount < MAX_RETRIES
  THEN IF m.cycle[c].tries > MAX_RETRIES THEN [m EXCEPT !.ok = FALSE]
       ELSE AwaitDelay([m EXCEPT !.retryCount = @ + 1, !.cycle[c].tries = @ + 1], c)
  ELSE LET m1 == ErrorCallback([m EXCEPT !.retryCount = AfterExhausted(@)], c)
       IN NextAccount(Emit(m1, c, "error", "exhausted", m.cycle[c].tries + 1, 0), c)

\* the for loop of fetchAllAccountsQuota goes on
NextAccount(m, c) ==
  IF m.cycle[c].i < Len(m.cycle[c].accs)
  THEN FetchStart([m EXCEPT !.cycle[c].i = @ + 1, !.cycle[c].tries = 0,
                            !.cycle[c].errs = 0], c)
  ELSE FinishCycle(m, c)

FetchSucceeded_Mutant(m, c, snap) ==
  LET m1 == [m EXCEPT !.retryCount = AfterSuccess(@)]
  IN NextAccount(Emit(m1, c, "update", "ok", m.cycle[c].tries, snap), c)

\* a fetch resolved with a snapshot: cache it, publish it, reset the counter
FetchSucceeded(m, c, snap) ==
  LET m1 == [m EXCEPT !.quotaCache[CurrentId(m, c)] = snap,
                      !.retryCount = AfterSuccess(@)]
  IN NextAccount(Emit(m1, c, "update", "ok", m.cycle[c].tries, snap), c)

\* ---- index.ts at startup: startPolling() if authenticated, then the listener
BootPolling ==
  /\ booted = "ready"
  /\ booted' = "started"
  /\ Commit(IF currentState = AUTHENTICATED THEN StartPollingM(Machine) ELSE Machine)
  /\ UNCHANGED <<activeAccountId, now, loginFlowState, loginCancelled,
                 callbackServer, server, login, call, cb, probe, bus, kiroVars, flowVars>>

\* ---- refreshNow() (tray, widget, settings page, proxy change)
RefreshNow ==
  /\ booted = "started"
  /\ HasFreeCycle(Machine)
  /\ Commit(BeginCycle(Machine, FreeCycle(Machine), "once"))
  /\ UNCHANGED <<activeAccountId, now, booted, loginFlowState, loginCancelled,
                 callbackServer, server, login, call, cb, probe, bus, kiroVars, flowVars>>

\* ---- a setInterval timer of startPolling fires
TimerTick ==
  /\ timers > 0
  /\ HasFreeCycle(Machine)
  /\ Commit(BeginCycle(Machine, FreeCycle(Machine), "once"))
  /\ UNCHANGED <<activeAccountId, now, booted, loginFlowState, loginCancelled,
                 callbackServer, server, login, call, cb, probe, bus, kiroVars, flowVars>>

\* ---- setPollingInterval(ms)
SetPollingInterval ==
  /\ booted = "started"
  /\ isPolling
  /\ Commit(StartPollingM(StopPollingM(Machine)))
  /\ UNCHANGED <<activeAccountId, now, booted, loginFlowState, loginCancelled,
                 callbackServer, server, login, call, cb, probe, bus, kiroVars, flowVars>>

\* ---- the makeTokenRequest of a cycle's token refresh settles with resp
CycleTokenWith(c, resp) ==
  /\ cycle[c].pc = "token"
  /\ LET id == CurrentId(Machine, c)
         m1 == [Machine EXCEPT !.tokens = RefreshTokens2(tokens, id, resp, now)]
     IN IF RefreshOk(tokens, id, resp)
        THEN LET m2 == SetStateM(m1, AUTHENTICATED)
             IN Commit([m2 EXCEPT !.cycle[c].pc = "api"])
        ELSE Commit(HandleFetchError([m1 EXCEPT !.currentState = TOKEN_EXPIRED],
                                     c, PlainError))
  /\ UNCHANGED <<activeAccountId, now, booted, loginFlowState, loginCancelled,
                 callbackServer, server, login, call, cb, probe, bus, kiroVars, flowVars>>

CycleTokenDone(c) == \E resp \in RefreshResponses : CycleTokenWith(c, resp)

\* ---- the API calls of a cycle's fetch settle with resp
CycleApiWith(c, resp) ==
  /\ cycle[c].pc = "api"
  /\ Commit(IF resp.ok THEN FetchSucceeded(Machine, c, resp.snap)
            ELSE HandleFetchError(Machine, c, resp.err))
  /\ UNCHANGED <<activeAccountId, now, booted, loginFlowState, loginCancelled,
                 callbackServer, server, login, call, cb, probe, bus, kiroVars, flowVars>>

CycleApiDone(c) == \E resp \in ApiResponses : CycleApiWith(c, resp)

\* ---- the RETRY_DELAY_MS delay of handleFetchError is over
CycleDelayDone(c) ==
  /\ cycle[c].pc = "delay"
  /\ LET m == [Machine EXCEPT !.cycle[c].wait = 0]
     IN Commit(IF CurrentId(m, c) \in Ids(accounts)
               THEN FetchStart(m, c)
               ELSE NextAccount(m, c))
  /\ UNCHANGED <<activeAccountId, now, booted, loginFlowState, loginCancelled,
                 callbackServer, server, login, call, cb, probe, bus, kiroVars, flowVars>>

\* ---- logout(accountId?) with the poller listening
PollLogout(accountId) ==
  /\ booted = "started"
  /\ Truthy(TargetId(accountId))
  /\ LET id == TargetId(accountId)
         m1 == [Machine EXCEPT !.accounts = Filtered(accounts, id),
                               !.tokens = DeleteToken(tokens, id)]
     IN /\ activeAccountId' = ActiveAfterDelete(accounts, activeAccountId, id)
        /\ Commit(IF Len(m1.accounts) = 0 THEN SetStateM(m1, NOT_AUTHENTICATED) ELSE m1)
  /\ UNCHANGED <<now, booted, loginFlowState, loginCancelled,
                 callbackServer, server, login, call, cb, probe, bus, kiroVars, flowVars>>

\* ----------------------------------------------------------- specifications
\* the persisted store the process starts with: empty, or one account
Account(id, email) == [id |-> id, email |-> email]
NoTokens == [id \in AccountIds |-> NoEntry]
InitStores ==
  {[accounts |-> <<>>, tokens |-> NoTokens, active |-> Null]}
  \cup {[accounts |-> <<Account("u1", "e1")>>,
         tokens |-> SaveToken(NoTokens, "u1", TokenData("a1", "r1", e)),
         active |-> "u1"] : e \in {1, 2}}

InitPoller ==
  /\ isPolling = FALSE
  /\ retryCount = 0
  /\ timers = 0
  /\ pollingTimer = FALSE
  /\ quotaCache = [id \in AccountIds |-> 0]
  /\ cycle = [c \in Cycles |-> NewCycle]
  /\ events = <<>>

NoProbe == [op |-> "none"]
\* KiroQuotaService after construction; cycle holds its fetchQuota() runs
NewKiroCycle == [pc |-> "idle", kind |-> Null, last |-> "none", tries |-> 0]
NoKiroQuota ==
  [isPolling |-> FALSE, retryCount |-> 0, pollingTimer |-> FALSE, timers |-> 0,
   cycle |-> [c \in 1..MaxCycles |-> NewKiroCycle]]

\* KiroAuthService.authStateListeners = [] and no broadcast made yet
NoKiroListeners == [listeners |-> <<>>, before |-> <<>>, delivered |-> <<>>]

\* this.credentials = null of KiroAuthService
NoCredentials == [accessToken |-> Null, refreshToken |-> Null, profileArn |-> Null]
NoKiroAuth ==
  [file |-> [kind |-> "absent"], credentials |-> NoCredentials,
   before |-> NoCredentials,
   op |-> "none", ret |-> "none"]
NoBus == [state |-> <<>>, flow |-> <<>>, delivered |-> <<>>, threw |-> FALSE]
InitCb ==
  /\ cb = [req |-> Request(Null, Null, Null, Null), expected |-> Null, out |-> "none"]
  /\ probe = NoProbe
  /\ bus = NoBus
  /\ kiroAuth = NoKiroAuth
  /\ kiroQuota = NoKiroQuota
  /\ kiroListeners = NoKiroListeners
  /\ currentAuthUrl = 0
  /\ flowEvents = <<>>

Init ==
  /\ \E st \in InitStores :
       /\ accounts = st.accounts
       /\ tokens = st.tokens
       /\ activeAccountId = st.active
  /\ now = 0
  /\ booted = "new"
  /\ currentState = NOT_AUTHENTICATED
  /\ loginFlowState = IDLE
  /\ loginCancelled = FALSE
  /\ callbackServer = 0
  /\ server = [l \in Logins |-> "none"]
  /\ login = [l \in Logins |-> NewLogin]
  /\ call = [c \in Calls |-> NewCall]
  /\ InitPoller
  /\ InitCb

Next ==
  \/ Initialize
  \/ InitializeRefreshed
  \/ \E l \in Logins : LoginCall(l)
  \/ \E l \in Logins : StartServerResolved(l)
  \/ \E l \in Logins : StartServerRejected(l)
  \/ \E l \in Logins : OpenBrowserDone(l)
  \/ \E s \in Logins : CallbackRequest(s)
  \/ \E l \in Logins : CallbackTimeout(l)
  \/ \E l \in Logins : CallbackSettled(l)
  \/ \E l \in Logins : ExchangeDone(l)
  \/ \E l \in Logins : UserInfoDone(l)
  \/ CancelLogin
  \/ \E a \in AccountIds \cup {Null} : Logout(a)
  \/ \E c \in Calls, a \in AccountIds \cup {Null} : GetValidAccessToken(c, a)
  \/ \E c \in Calls : CallRefreshed(c)
  \/ Tick

Spec == Init /\ [][Next]_vars

\* What the runtime guarantees about the awaits of login(): the listen call of
\* startServer settles, shell.openExternal settles, the AUTH_TIMEOUT_MS timer of
\* waitForCallback fires while its promise is pending, and a settled promise
\* resumes the await. makeTokenRequest and fetchUserInfo set no timeout on
\* their https.request, so nothing forces ExchangeDone or UserInfoDone.
LoginFairness ==
  \A l \in Logins :
    /\ WF_vars(StartServerResolved(l) \/ StartServerRejected(l))
    /\ WF_vars(OpenBrowserDone(l))
    /\ WF_vars(CallbackTimeout(l))
    /\ WF_vars(CallbackSettled(l))

SpecLive == Init /\ [][Next]_vars /\ LoginFairness


\* ---- the poller, started after initialize() with two accounts in the store
InitPollStores ==
  {[accounts |-> <<Account("u1", "e1"), Account("u2", "e1")>>,
    tokens |-> SaveToken(SaveToken(NoTokens, "u1", TokenData("a1", "r1", e1)),
                         "u2", TokenData("a1", "r1", e2)),
    active |-> "u1"] : e1 \in {1, 2}, e2 \in {1, 2}}

InitPoll ==
  /\ \E st \in InitPollStores :
       /\ accounts = st.accounts
       /\ tokens = st.tokens
       /\ activeAccountId = st.active
  /\ now = 0
  /\ booted = "ready"
  /\ currentState = AUTHENTICATED
  /\ loginFlowState = IDLE
  /\ loginCancelled = FALSE
  /\ callbackServer = 0
  /\ server = [l \in Logins |-> "none"]
  /\ login = [l \in Logins |-> NewLogin]
  /\ call = [c \in Calls |-> NewCall]
  /\ InitPoller
  /\ InitCb

NextPoll ==
  \/ BootPolling
  \/ RefreshNow
  \/ TimerTick
  \/ SetPollingInterval
  \/ \E c \in Cycles : CycleTokenDone(c)
  \/ \E c \in Cycles : CycleApiDone(c)
  \/ \E c \in Cycles : CycleDelayDone(c)
  \/ \E a \in AccountIds : PollLogout(a)

SpecPoll == InitPoll /\ [][NextPoll]_vars


\* ---- the request handler of waitForCallback, one request at a time
CallbackRequests ==
  {Request(p, c, st, e) :
     p \in {CALLBACK_PATH, "/favicon.ico"}, c \in {Null, "", "code"},
     st \in {Null, "s1", "s2"}, e \in {Null, "access_denied"}}

InitCallback ==
  /\ \E req \in CallbackRequests, expected \in {"s1", "s2"} :
       cb = [req |-> req, expected |-> expected, out |-> "none"]
  /\ accounts = <<>>
  /\ tokens = NoTokens
  /\ activeAccountId = Null
  /\ now = 0
  /\ booted = "ready"
  /\ currentState = NOT_AUTHENTICATED
  /\ loginFlowState = IDLE
  /\ loginCancelled = FALSE
  /\ callbackServer = 0
  /\ server = [l \in Logins |-> "none"]
  /\ login = [l \in Logins |-> NewLogin]
  /\ call = [c \in Calls |-> NewCall]
  /\ InitPoller
  /\ probe = NoProbe
  /\ bus = NoBus
  /\ kiroAuth = NoKiroAuth
  /\ kiroQuota = NoKiroQuota
  /\ kiroListeners = NoKiroListeners
  /\ currentAuthUrl = 0
  /\ flowEvents = <<>>

HandleCallback ==
  /\ cb.out = "none"
  /\ cb' = [cb EXCEPT !.out = HandleRequest(cb.req, cb.expected)]
  /\ UNCHANGED <<authVars, pollVars, probe, bus, kiroVars, flowVars>>

NextCallback == HandleCallback

SpecCallback == InitCallback /\ [][NextCallback]_vars

\* ---- TokenStorage on its own: deleteAccount and isTokenExpired as functions
\* of the store, for rosters of up to three accounts
StoreIds == {"u1", "u2", "u3"}
StoreRosters ==
  {r \in UNION {[1..n -> StoreIds] : n \in 0..3} :
     \A i, j \in 1..Len(r) : r[i] = r[j] => i = j}

InitStore ==
  /\ \E r \in StoreRosters, exp \in [StoreIds -> 1..MaxExpiry] :
       /\ accounts = [k \in 1..Len(r) |-> Account(r[k], "e1")]
       /\ tokens = [id \in StoreIds |->
                      IF \E k \in 1..Len(r) : r[k] = id
                      THEN Encrypt(TokenData("a1", "r1", exp[id])) ELSE NoEntry]
       /\ activeAccountId \in (IF Len(r) = 0 THEN {Null} ELSE {r[k] : k \in 1..Len(r)})
  /\ now = 0
  /\ booted = "ready"
  /\ currentState = IF HasAnyAccount(accounts) THEN AUTHENTICATED ELSE NOT_AUTHENTICATED
  /\ loginFlowState = IDLE
  /\ loginCancelled = FALSE
  /\ callbackServer = 0
  /\ server = [l \in Logins |-> "none"]
  /\ login = [l \in Logins |-> NewLogin]
  /\ call = [c \in Calls |-> NewCall]
  /\ InitPoller
  /\ InitCb

\* TokenStorage.deleteAccount(accountId)
DeleteAccount(accountId) ==
  /\ accounts' = Filtered(accounts, accountId)
  /\ tokens' = DeleteToken(tokens, accountId)
  /\ activeAccountId' = ActiveAfterDelete(accounts, activeAccountId, accountId)
  /\ probe' = [op |-> "deleteAccount", id |-> accountId, accounts |-> accounts,
               active |-> activeAccountId]
  /\ UNCHANGED <<now, booted, currentState, loginFlowState, loginCancelled,
                 callbackServer, server, login, call, pollVars, cb, bus, kiroVars, flowVars>>

\* TokenStorage.isTokenExpired(accountId, bufferMs)
IsTokenExpiredCall(accountId, bufferMs) ==
  /\ probe' = [op |-> "isTokenExpired", id |-> accountId, bufferMs |-> bufferMs,
               now |-> now, out |-> IsTokenExpired(tokens, accountId, bufferMs, now)]
  /\ UNCHANGED <<authVars, pollVars, cb, bus, kiroVars, flowVars>>

\* the clock, for the store on its own
StoreTick ==
  /\ now < MaxNow
  /\ now' = now + 1
  /\ probe' = NoProbe
  /\ UNCHANGED <<accounts, tokens, activeAccountId, booted, currentState,
                 loginFlowState, loginCancelled, callbackServer, server, login,
                 call, pollVars, cb, bus, kiroVars, flowVars>>

NextStore ==
  \/ \E a \in StoreIds : DeleteAccount(a)
  \/ \E a \in StoreIds, b \in 0..MaxBuffer : IsTokenExpiredCall(a, b)
  \/ StoreTick

SpecStore == InitStore /\ [][NextStore]_vars

\* ---- the listener sets of GoogleAuthService on their own: setState and
\* ---- setLoginFlowState as broadcasts
AuthStateValues ==
  {NOT_AUTHENTICATED, AUTHENTICATING, AUTHENTICATED, TOKEN_EXPIRED, REFRESHING,
   AUTH_ERROR}
LoginFlowStateValues ==
  {IDLE, PREPARING, OPENING_BROWSER, WAITING_AUTH, EXCHANGING_TOKEN, SUCCESS,
   FLOW_ERROR, CANCELLED}

\* what a subscribed callback does when called: return, throw, or call the
\* unsubscribe function it was given and return
Behaviours == {"returns", "throws", "unsubscribes"}
Listener(id, does) == [id |-> id, does |-> does]
ListenerIds(ls) == {ls[k].id : k \in 1..Len(ls)}
Without(ls, id) == SelectSeq(ls, LAMBDA l : l.id # id)

\* how the call listener(info) completes
Completion(l) == IF l.does = "throws" THEN "throws" ELSE "returns"

TryCatch_Mutant(completion) == completion

\* try { listener(info) } catch (e) { logger.error(...) }
TryCatch(completion) == "returns"

\* listeners.forEach(...) of the setters: todo are the entries not yet visited,
\* acc the listener set, the deliveries made and whether forEach threw
RECURSIVE ForEach(_, _, _)
ForEach(todo, info, acc) ==
  IF todo = <<>> THEN acc
  ELSE LET l == Head(todo)
           a1 == [acc EXCEPT
                    !.delivered = Append(@, [id |-> l.id, info |-> info]),
                    !.listeners = IF l.does = "unsubscribes"
                                  THEN Without(@, l.id) ELSE @]
       IN IF TryCatch(Completion(l)) = "throws"
          THEN [a1 EXCEPT !.threw = TRUE]
          ELSE ForEach(Tail(todo), info, a1)

Broadcast(ls, info) ==
  ForEach(ls, info, [listeners |-> ls, delivered |-> <<>>, threw |-> FALSE])

\* setState(state)
SetState(state) ==
  /\ currentState' = state
  /\ LET r == Broadcast(bus.state, state)
     IN bus' = [bus EXCEPT !.state = r.listeners, !.delivered = r.delivered,
                           !.threw = r.threw]
  /\ UNCHANGED <<accounts, tokens, activeAccountId, now, booted, loginFlowState,
                 loginCancelled, callbackServer, server, login, call, pollVars,
                 cb, probe, kiroVars, flowVars>>

\* setLoginFlowState(state)
SetLoginFlowState(state) ==
  /\ loginFlowState' = state
  /\ LET r == Broadcast(bus.flow, state)
     IN bus' = [bus EXCEPT !.flow = r.listeners, !.delivered = r.delivered,
                           !.threw = r.threw]
  /\ UNCHANGED <<accounts, tokens, activeAccountId, now, booted, currentState,
                 loginCancelled, callbackServer, server, login, call, pollVars,
                 cb, probe, kiroVars, flowVars>>

\* the id a newly subscribed callback gets here
FreshId(ls) == CHOOSE id \in 1..MaxListeners : id \notin ListenerIds(ls)

\* onAuthStateChange(callback)
OnAuthStateChange(does) ==
  /\ Len(bus.state) + Len(bus.flow) < MaxListeners
  /\ bus' = [bus EXCEPT !.state = Append(@, Listener(FreshId(@), does)),
                        !.delivered = <<>>, !.threw = FALSE]
  /\ UNCHANGED <<authVars, pollVars, cb, probe, kiroVars, flowVars>>

\* onLoginFlowChange(callback)
OnLoginFlowChange(does) ==
  /\ Len(bus.state) + Len(bus.flow) < MaxListeners
  /\ bus' = [bus EXCEPT !.flow = Append(@, Listener(FreshId(@), does)),
                        !.delivered = <<>>, !.threw = FALSE]
  /\ UNCHANGED <<authVars, pollVars, cb, probe, kiroVars, flowVars>>

\* the unsubscribe function returned by onAuthStateChange, called outside a broadcast
UnsubscribeState(id) ==
  /\ id \in ListenerIds(bus.state)
  /\ bus' = [bus EXCEPT !.state = Without(@, id), !.delivered = <<>>,
                        !.threw = FALSE]
  /\ UNCHANGED <<authVars, pollVars, cb, probe, kiroVars, flowVars>>

\* the unsubscribe function returned by onLoginFlowChange, called outside a broadcast
UnsubscribeFlow(id) ==
  /\ id \in ListenerIds(bus.flow)
  /\ bus' = [bus EXCEPT !.flow = Without(@, id), !.delivered = <<>>,
                        !.threw = FALSE]
  /\ UNCHANGED <<authVars, pollVars, cb, probe, kiroVars, flowVars>>

InitNotify ==
  /\ accounts = <<>>
  /\ tokens = NoTokens
  /\ activeAccountId = Null
  /\ now = 0
  /\ booted = "ready"
  /\ currentState = NOT_AUTHENTICATED
  /\ loginFlowState = IDLE
  /\ loginCancelled = FALSE
  /\ callbackServer = 0
  /\ server = [l \in Logins |-> "none"]
  /\ login = [l \in Logins |-> NewLogin]
  /\ call = [c \in Calls |-> NewCall]
  /\ InitPoller
  /\ InitCb

\* the states the setters are called with here
SetStateInputs == {AUTHENTICATED, AUTH_ERROR}
SetLoginFlowStateInputs == {PREPARING, FLOW_ERROR}

NextNotify ==
  \/ \E s \in SetStateInputs : SetState(s)
  \/ \E s \in SetLoginFlowStateInputs : SetLoginFlowState(s)
  \/ \E d \in Behaviours : OnAuthStateChange(d)
  \/ \E d \in Behaviours : OnLoginFlowChange(d)
  \/ \E id \in 1..MaxListeners : UnsubscribeState(id)
  \/ \E id \in 1..MaxListeners : UnsubscribeFlow(id)

SpecNotify == InitNotify /\ [][NextNotify]_vars

\* ---- KiroAuthService on its own: loadCredentials over the credential file
\* the credential file: absent, unreadable, not JSON, a JSON value that is not
\* an object (null, or a scalar), or a JSON object
KiroObject(accessToken, refreshToken, profileArn) ==
  [kind |-> "object", accessToken |-> accessToken, refreshToken |-> refreshToken,
   profileArn |-> profileArn]
KiroFiles ==
  {[kind |-> k] : k \in {"absent", "unreadable", "unparsable", "null", "scalar"}}
  \cup {KiroObject(a, r, p) :
          a \in {Null, "ka"}, r \in {Null, "", "kr"}, p \in {Null, "", "arn"}}

\* the property `name` of a parsed non-null JSON value (undefined: Null)
KiroField(data, name) == IF data.kind = "object" THEN data[name] ELSE Null

\* TRUE when the try block of loadCredentials throws: readFileSync or
\* JSON.parse fail, or a property of null is read
LoadThrows(file) == file.kind \in {"unreadable", "unparsable", "null"}

\* TRUE when loadCredentials stores credentials and returns true
LoadSucceeds(file) ==
  /\ file.kind # "absent"
  /\ ~LoadThrows(file)
  /\ Truthy(KiroField(file, "refreshToken"))
  /\ Truthy(KiroField(file, "profileArn"))

KiroCredentials(file) ==
  [accessToken |-> IF Truthy(file.accessToken) THEN file.accessToken ELSE "",
   refreshToken |-> file.refreshToken, profileArn |-> file.profileArn]

CredentialsOnFailure_Mutant(old) == old

\* this.credentials = null, on every path of loadCredentials that returns false
CredentialsOnFailure(old) == NoCredentials

\* loadCredentials(): the new this.credentials
LoadCredentials(file, old) ==
  IF LoadSucceeds(file) THEN KiroCredentials(file) ELSE CredentialsOnFailure(old)

\* isAuthenticated()
KiroIsAuthenticated(credentials) ==
  credentials # NoCredentials /\ Truthy(credentials.refreshToken)

KiroLoad(op) ==
  /\ kiroAuth' = [kiroAuth EXCEPT
                    !.credentials = LoadCredentials(kiroAuth.file, @),
                    !.before = kiroAuth.credentials,
                    !.op = op,
                    !.ret = IF LoadSucceeds(kiroAuth.file) THEN "true" ELSE "false"]
  /\ UNCHANGED <<authVars, pollVars, cb, probe, bus, flowVars, kiroQuota, kiroListeners>>

\* initialize()
KiroInitialize == kiroAuth.op = "none" /\ KiroLoad("initialize")

\* reload()
KiroReload == kiroAuth.op # "none" /\ KiroLoad("reload")

\* Kiro IDE (or the user) rewrites or removes the credential file
KiroFileChanges ==
  /\ \E f \in KiroFiles : f # kiroAuth.file /\ kiroAuth' = [kiroAuth EXCEPT !.file = f]
  /\ UNCHANGED <<authVars, pollVars, cb, probe, bus, flowVars, kiroQuota, kiroListeners>>

InitKiroAuth ==
  /\ accounts = <<>>
  /\ tokens = NoTokens
  /\ activeAccountId = Null
  /\ now = 0
  /\ booted = "ready"
  /\ currentState = NOT_AUTHENTICATED
  /\ loginFlowState = IDLE
  /\ loginCancelled = FALSE
  /\ callbackServer = 0
  /\ server = [l \in Logins |-> "none"]
  /\ login = [l \in Logins |-> NewLogin]
  /\ call = [c \in Calls |-> NewCall]
  /\ InitPoller
  /\ cb = [req |-> Request(Null, Null, Null, Null), expected |-> Null, out |-> "none"]
  /\ probe = NoProbe
  /\ bus = NoBus
  /\ \E f \in KiroFiles : kiroAuth = [NoKiroAuth EXCEPT !.file = f]
  /\ kiroQuota = NoKiroQuota
  /\ kiroListeners = NoKiroListeners
  /\ currentAuthUrl = 0
  /\ flowEvents = <<>>

NextKiroAuth ==
  \/ KiroInitialize
  \/ KiroReload
  \/ KiroFileChanges

SpecKiroAuth == InitKiroAuth /\ [][NextKiroAuth]_vars

\* ---- getQuotaLevel as a function of its arguments
Percentages == {p \in (0 - 5)..MaxPercentage : p % 5 = 0}
Thresholds == {10, 30, 50, 80}

GetQuotaLevel_Mutant(percentage, warningThreshold, criticalThreshold) ==
  IF percentage <= 0 THEN "depleted"
  ELSE IF percentage <= criticalThreshold THEN "critical"
  ELSE IF percentage < warningThreshold THEN "warning"
  ELSE "normal"

\* getQuotaLevel(percentage, warningThreshold, criticalThreshold)
GetQuotaLevel(percentage, warningThreshold, criticalThreshold) ==
  IF percentage <= 0 THEN "depleted"
  ELSE IF percentage < criticalThreshold THEN "critical"
  ELSE IF percentage < warningThreshold THEN "warning"
  ELSE "normal"

InitLevel ==
  /\ accounts = <<>>
  /\ tokens = NoTokens
  /\ activeAccountId = Null
  /\ now = 0
  /\ booted = "ready"
  /\ currentState = NOT_AUTHENTICATED
  /\ loginFlowState = IDLE
  /\ loginCancelled = FALSE
  /\ callbackServer = 0
  /\ server = [l \in Logins |-> "none"]
  /\ login = [l \in Logins |-> NewLogin]
  /\ call = [c \in Calls |-> NewCall]
  /\ InitPoller
  /\ cb = [req |-> Request(Null, Null, Null, Null), expected |-> Null, out |-> "none"]
  /\ bus = NoBus
  /\ kiroAuth = NoKiroAuth
  /\ kiroQuota = NoKiroQuota
  /\ kiroListeners = NoKiroListeners
  /\ currentAuthUrl = 0
  /\ flowEvents = <<>>
  /\ \E p \in Percentages, w \in Thresholds, c \in Thresholds :
       probe = [op |-> "getQuotaLevel", percentage |-> p, warningThreshold |-> w,
                criticalThreshold |-> c, out |-> "none"]

\* the renderer calls getQuotaLevel with a model's percentage and the settings
GetQuotaLevelCall ==
  /\ probe.op = "getQuotaLevel" /\ probe.out = "none"
  /\ probe' = [probe EXCEPT !.out = GetQuotaLevel(probe.percentage,
                                                  probe.warningThreshold,
                                                  probe.criticalThreshold)]
  /\ UNCHANGED <<authVars, pollVars, cb, bus, kiroVars, flowVars>>

NextLevel == GetQuotaLevelCall

SpecLevel == InitLevel /\ [][NextLevel]_vars

\* ------------------------------------------------------------------ claims
\* the login attempts other than l have not been started
OnlyAttempt(l) == \A k \in Logins : k # l => login[k].pc = "idle"

\* C1: a login() call made while an earlier login() call has not returned is
\* rejected, hence at most one login attempt is in flight in every reachable state.
C1_AtMostOneLoginInFlight ==
  \A l, k \in Logins : InFlight(l) /\ InFlight(k) => l = k

\* C5: a request to the callback path that carries no error parameter and whose
\* state parameter differs from the state issued for the attempt makes
\* waitForCallback fail with the state-mismatch error, with or without a code.
C5_StateMismatchAlwaysReported ==
  (cb.out # "none" /\ cb.req.path = CALLBACK_PATH /\ ~Truthy(cb.req.error)
     /\ cb.req.state # cb.expected)
  => cb.out = "stateMismatch"

\* C6 as stated: when the token endpoint's response to the code exchange has no
\* refresh_token, login() returns false with LoginFlowState = Error, and the
\* roster, the token records and the active-account id are unchanged.
C6_NoRefreshTokenFlowError ==
  [][\A l \in Logins, resp \in ExchangeResponses :
       (LacksRefreshToken(resp) /\ ExchangeWith(l, resp))
       => /\ login'[l].pc = "done" /\ login'[l].ret = "false"
          /\ loginFlowState' = FLOW_ERROR
          /\ UNCHANGED <<accounts, tokens, activeAccountId>>]_vars

\* C6, amended: when the token endpoint's response to the code exchange has no
\* refresh_token, login() returns false, LoginFlowState is Error, or Cancelled if
\* the attempt was cancelled meanwhile, and the roster, the token records and the
\* active-account id are unchanged.
C6_NoRefreshTokenLoginFails ==
  [][\A l \in Logins, resp \in ExchangeResponses :
       (LacksRefreshToken(resp) /\ ExchangeWith(l, resp))
       => /\ login'[l].pc = "done" /\ login'[l].ret = "false"
          /\ loginFlowState' = IF loginCancelled THEN CANCELLED ELSE FLOW_ERROR
          /\ UNCHANGED <<accounts, tokens, activeAccountId>>]_vars

\* a login has returned false on a response without refresh_token, flow state Error
C6_Witness ==
  \E l \in Logins :
    /\ login[l].noRefresh /\ login[l].pc = "done" /\ login[l].ret = "false"
    /\ loginFlowState = FLOW_ERROR

\* C7: when cancelLogin() is called while the only login attempt is before Success,
\* the callback listener is stopped in that step and the attempt ends with
\* LoginFlowState = Cancelled, never Success or Error.
C7_CancelledAttemptEndsCancelled ==
  [][\A l \in Logins :
       OnlyAttempt(l) =>
         /\ (InFlight(l) /\ ~login[l].cancelled /\ login'[l].cancelled)
              => server'[l] \notin {"starting", "listening"}
         /\ (login[l].cancelled /\ InFlight(l) /\ login'[l].pc = "done")
              => loginFlowState' = CANCELLED]_vars

\* C8: a login attempt cancelled before Success persists nothing: no step of the
\* only, cancelled attempt changes the roster, the token records or the active id.
C8_CancelledAttemptPersistsNothing ==
  [][\A l \in Logins :
       (OnlyAttempt(l) /\ login[l].cancelled /\ login'[l] # login[l])
       => UNCHANGED <<accounts, tokens, activeAccountId>>]_vars

\* C9: when a login attempt is cancelled (no other attempt in flight), AuthState
\* becomes the value it had immediately before that login() was called.
C9_CancelRestoresAuthState ==
  [][\A l \in Logins :
       (InFlight(l) /\ ~login[l].cancelled /\ login'[l].cancelled
          /\ \A k \in Logins : k # l => ~InFlight(k))
       => currentState' = login[l].pre]_vars

\* every stored token record has a non-empty refresh token
StoredTokensHaveRefreshToken ==
  \A id \in AccountIds : HasToken(tokens, id) => Truthy(GetToken(tokens, id).refreshToken)

\* a step in which a refreshToken() call completes
RefreshCompletes ==
  \/ booted = "refreshing" /\ booted' = "ready"
  \/ \E c \in Calls : call[c].pc = "refreshing" /\ call'[c].pc # "refreshing"

\* C10: every persisted token record has a non-empty refresh token in every
\* reachable state, and an access-token-only refresh changes nothing in the store
\* but the access token and the expiry of a record.
C10_RefreshTokenNeverEmpty ==
  /\ []StoredTokensHaveRefreshToken
  /\ [][RefreshCompletes =>
          /\ UNCHANGED <<accounts, activeAccountId>>
          /\ \A id \in AccountIds :
               /\ HasToken(tokens', id) = HasToken(tokens, id)
               /\ GetToken(tokens', id).refreshToken = GetToken(tokens, id).refreshToken]_vars

\* a record saved at login whose access token a refresh has replaced
C10_Witness ==
  \E id \in AccountIds :
    /\ HasToken(tokens, id)
    /\ GetToken(tokens, id).accessToken = "a2"
    /\ GetToken(tokens, id).refreshToken = "r1"

\* C2: a fetch that fails with an error requiring re-authentication (401) is not
\* retried: one error event is emitted with retryCount 0, and when the enclosing
\* cycle finishes isPolling is false.
C2_ReauthStopsPolling ==
  [][/\ \A k \in 1..Len(events') :
          events'[k].why = "reauth"
          => events'[k].out = "error" /\ events'[k].errs = 1 /\ events'[k].rc = 0
     /\ \A c \in Cycles :
          (cycle[c].pc \notin {"idle", "done"} /\ cycle'[c].pc = "done"
             /\ cycle'[c].reauth)
          => isPolling' = FALSE]_vars

\* C3: a fetch that keeps failing with retryable errors is retried at most 3
\* times, the error event that ends it resets retryCount to 0, and retryCount
\* never exceeds 3.
C3_AtMostThreeRetries ==
  /\ retryCount <= MAX_RETRIES
  /\ \A c \in Cycles : cycle[c].tries <= MAX_RETRIES
  /\ \A k \in 1..Len(events) :
       events[k].why = "exhausted" => events[k].errs = 1 /\ events[k].rc = 0

\* C4: when an account's fetch met exactly 3 retryable errors and then succeeded,
\* the snapshot is in the cache, an update event and no error event was emitted
\* for the account, and retryCount is 0 right after.
C4_SuccessAfterThreeRetries ==
  \A k \in 1..Len(events) :
    (events[k].why = "ok" /\ events[k].fails = MAX_RETRIES)
    => /\ events[k].out = "update"
       /\ events[k].snap # 0 /\ events[k].cached = events[k].snap
       /\ quotaCache[events[k].id] = events[k].snap
       /\ events[k].errs = 0
       /\ events[k].rc = 0

\* a fetch has just succeeded on its third retry
C4_Witness ==
  \E k \in 1..Len(events) :
    /\ events[k].why = "ok" /\ events[k].fails = MAX_RETRIES
    /\ events[k].out = "update" /\ events[k].cached = events[k].snap

C13_IsTokenExpiredIff ==
  (probe.op = "isTokenExpired" /\ HasToken(tokens, probe.id))
  => (probe.out <=> probe.now + probe.bufferMs >= GetToken(tokens, probe.id).expiresAt)

\* isTokenExpired has just returned true exactly at now + buffer = expiresAt, with
\* the default buffer
C13_Witness ==
  /\ probe.op = "isTokenExpired" /\ HasToken(tokens, probe.id)
  /\ probe.bufferMs = DEFAULT_TOKEN_EXPIRY_BUFFER
  /\ probe.now + probe.bufferMs = GetToken(tokens, probe.id).expiresAt
  /\ probe.out

\* the cycle c is between two awaits of a fetch
Running(cy) == cy.pc \in {"token", "api", "delay"}

\* the accounts cycle c is done with in this step: from the one it was at (the
\* first, when the step starts the cycle) to the one before where it is now
LeftBehind(c) ==
  LET from == IF Running(cycle[c]) THEN cycle[c].i ELSE 1
      accs == IF Running(cycle[c]) THEN cycle[c].accs
              ELSE [k \in 1..Len(accounts') |-> accounts'[k].id]
      upto == IF Running(cycle'[c]) THEN cycle'[c].i - 1 ELSE Len(accs)
  IN {<<j, accs[j]>> : j \in from..upto}

\* cycle c publishes an update or an error for account id in this step
PublishedFor(c, id) ==
  \E k \in 1..Len(events') :
    /\ events'[k].cycle = c /\ events'[k].id = id
    /\ events'[k].out \in {"update", "error"}

\* a step of cycle c: it starts, moves on, or finishes
CycleMoves(c) ==
  /\ cycle'[c] # cycle[c]
  /\ cycle'[c].pc # "idle"
  /\ Running(cycle[c]) \/ cycle[c].pc = "idle"

SurfacedAtOnce(c, id) ==
  /\ \E k \in 1..Len(events') :
       events'[k].cycle = c /\ events'[k].id = id /\ events'[k].out = "error"
  /\ ~(cycle'[c].pc = "delay" /\ cycle'[c].accs[cycle'[c].i] = id)

\* C15: the poller retries only network errors, HTTP 5xx and HTTP 429; a failure
\* that is neither retryable nor an auth failure (an HTTP 4xx other than 401/429,
\* a rejected token refresh) is surfaced on the error channel at once, with no
\* retry and no delay, and polling continues.
C15_NonRetryableSurfacedAtOnce ==
  [][\A c \in Cycles :
       /\ \A resp \in ApiResponses :
            (~resp.ok /\ resp.err.api /\ ~IsRetryable(resp.err) /\ ~NeedsReauth(resp.err)
               /\ CycleApiWith(c, resp))
            => SurfacedAtOnce(c, CurrentId(Machine, c)) /\ isPolling' = isPolling
       /\ \A resp \in RefreshResponses :
            (resp.kind # "ok" /\ CycleTokenWith(c, resp))
            => SurfacedAtOnce(c, CurrentId(Machine, c)) /\ isPolling' = isPolling]_vars

\* the update and error events cycle c publishes for account id in this step
EventsFor(c, id) ==
  {k \in 1..Len(events') :
     /\ events'[k].cycle = c /\ events'[k].id = id
     /\ events'[k].out \in {"update", "error"}}

UpdatesOf(id) ==
  {k \in 1..Len(events') : events'[k].id = id /\ events'[k].out = "update"}
LastOf(S) == CHOOSE k \in S : \A j \in S : j <= k

\* C17: the cache entry of an account is the snapshot of its most recently
\* completed successful fetch: a step changes it only by completing a successful
\* fetch for that account, to that fetch's snapshot as a whole; failed fetches,
\* retries in progress and fetches for other accounts leave it unchanged.
C17_CacheIsLastSuccess ==
  [][\A id \in AccountIds :
       IF UpdatesOf(id) = {}
       THEN quotaCache'[id] = quotaCache[id]
       ELSE /\ quotaCache'[id] = events'[LastOf(UpdatesOf(id))].snap
            /\ quotaCache'[id] # 0
            /\ \A k \in UpdatesOf(id) : events'[k].cached = events'[k].snap]_vars

\* a failed fetch for an account has just been surfaced and the snapshot cached
\* for the account by an earlier fetch is still there
C17_Witness ==
  \E k \in 1..Len(events) :
    /\ events[k].out = "error"
    /\ quotaCache[events[k].id] = 2
    /\ events[k].cached = 2

\* C18 (first half): once the promise of waitForCallback of an attempt has
\* settled, by a code, a provider error, a missing code, a state mismatch or
\* the timeout, the callback server it was waiting on is stopped.
C18_SettledServerStopped ==
  \A l \in Logins :
    login[l].prom \in {"resolved", "rejected"} => server[login[l].srv] = "closed"

\* C18: the first half, and when login() has returned, with any outcome, the
\* callback server that attempt created is neither starting nor listening.
C18_NoListenerAfterReturn ==
  /\ C18_SettledServerStopped
  /\ \A l \in Logins :
       login[l].pc = "done" => server[l] \notin {"starting", "listening"}

\* C19: every login attempt that was started eventually returns (its flow ends
\* in Success, Error or Cancelled), whatever the token endpoint and the profile
\* endpoint do, even if they never respond.
C19_LoginEventuallyReturns ==
  \A l \in Logins : (login[l].pc # "idle") ~> (login[l].pc = "done")

\* the refresh token stored for id (Null when no token is stored)
StoredRefreshToken(tks, id) == GetToken(tks, id).refreshToken

RosterOrRefreshTokenChanges ==
  \/ accounts' # accounts
  \/ \E id \in AccountIds :
       StoredRefreshToken(tokens', id) # StoredRefreshToken(tokens, id)

\* C20: the roster and the stored refresh tokens change only in a step that is
\* a login storing its result or a logout/delete; in particular no step in which
\* a quota fetch or a token refresh fails (a 401 included) changes them.
C20_OnlyLoginAndLogoutChangeRoster ==
  [][RosterOrRefreshTokenChanges =>
       \/ \E a \in AccountIds \cup {Null} : Logout(a) \/ PollLogout(a)
       \/ \E l \in Logins, info \in UserInfoResponses :
            info # UserInfoFailure /\ UserInfoWith(l, info)]_vars

\* a refresh was rejected and a fetch was answered 401, and both accounts are
\* still in the roster with their refresh tokens
C20_Witness ==
  /\ currentState = TOKEN_EXPIRED
  /\ \E c \in Cycles : cycle[c].reauth
  /\ Len(accounts) = 2
  /\ \A id \in AccountIds : StoredRefreshToken(tokens, id) = "r1"

NoDuplicateIds(accs) ==
  \A i, j \in 1..Len(accs) : accs[i].id = accs[j].id => i = j

\* C21: the roster never holds two accounts with the same id; a login that
\* succeeds with a profile id already in the roster overwrites that entry in
\* place (same position, same length), and one with a new id appends at the end.
C21_RosterKeyedById ==
  /\ [](NoDuplicateIds(accounts))
  /\ [][\A l \in Logins, info \in UserInfoResponses :
          (UserInfoWith(l, info) /\ login'[l].ret = "true")
          => IF info.id \in Ids(accounts)
             THEN /\ Len(accounts') = Len(accounts)
                  /\ \A i \in 1..Len(accounts) :
                       accounts'[i] = IF accounts[i].id = info.id THEN info
                                      ELSE accounts[i]
             ELSE accounts' = Append(accounts, info)]_vars

\* a repeated login of the first of two accounts has replaced its entry in place
C21_Witness ==
  /\ accounts = <<Account("u1", "e2"), Account("u2", "e1")>>
  /\ \A l \in Logins : login[l].pc = "done" /\ login[l].ret = "true"

\* the deliveries of the last setter call are one call per listener of ls, in
\* order, each with info, and the setter returned normally
DeliveredToAll(ls, info) ==
  /\ ~bus'.threw
  /\ Len(bus'.delivered) = Len(ls)
  /\ \A k \in 1..Len(ls) :
       bus'.delivered[k] = [id |-> ls[k].id, info |-> info]

\* C22: a call of setState or setLoginFlowState calls, before it returns, every
\* listener subscribed to that channel when it was called, with the new state;
\* a listener that throws neither stops the remaining listeners from being
\* called nor makes the setter throw.
C22_BroadcastToAllListeners ==
  [][/\ \A s \in AuthStateValues :
          SetState(s) => currentState' = s /\ DeliveredToAll(bus.state, s)
     /\ \A s \in LoginFlowStateValues :
          SetLoginFlowState(s)
          => loginFlowState' = s /\ DeliveredToAll(bus.flow, s)]_vars

\* a broadcast in which the first listener threw has reached the last listener
C22_Witness ==
  /\ Len(bus.delivered) = MaxListeners
  /\ \E k \in 1..Len(bus.state) :
       /\ bus.state[k].id = bus.delivered[1].id /\ bus.state[k].does = "throws"
  /\ bus.delivered[MaxListeners].info = currentState
  /\ ~bus.threw

\* the credential file is absent, cannot be parsed, or lacks refreshToken or
\* profileArn
KiroFileUnusable(file) ==
  \/ file.kind \in {"absent", "unparsable"}
  \/ ~Truthy(KiroField(file, "refreshToken"))
  \/ ~Truthy(KiroField(file, "profileArn"))

\* C23: when initialize() or reload() finds the credential file absent,
\* unparsable or without refreshToken or profileArn, it returns false (it does
\* not throw), isAuthenticated() is false afterwards and the credentials held
\* before the call are gone.
C23_UnusableFileMeansNotAuthenticated ==
  [][((KiroInitialize \/ KiroReload) /\ KiroFileUnusable(kiroAuth.file))
     => /\ kiroAuth'.ret = "false"
        /\ ~KiroIsAuthenticated(kiroAuth'.credentials)
        /\ kiroAuth'.credentials = NoCredentials]_vars

\* reload() has returned false on a file without profileArn while credentials
\* were held
C23_Witness ==
  /\ kiroAuth.op = "reload" /\ kiroAuth.ret = "false"
  /\ kiroAuth.before # NoCredentials
  /\ kiroAuth.file.kind = "object" /\ kiroAuth.file.refreshToken = "kr"
  /\ kiroAuth.file.profileArn = Null
  /\ kiroAuth.credentials = NoCredentials

C25_BrowserFailureNotFatal ==
  [][\A l \in Logins :
       /\ (OpenBrowserWith(l, FALSE) /\ ~loginCancelled)
          => /\ login'[l].pc = "waitCallback"
             /\ loginFlowState' = WAITING_AUTH
             /\ flowEvents' = <<FlowInfo(WAITING_AUTH, l)>>
             /\ currentAuthUrl' = l
             /\ currentState' = currentState
       /\ (CallbackSettled(l) /\ login[l].browser = "failed"
           /\ login[l].prom = "resolved" /\ ~loginCancelled)
          => /\ login'[l].pc = "exchange"
             /\ loginFlowState' = EXCHANGING_TOKEN]_vars

\* the browser could not be opened, the flow waits for the authorization with
\* the URL exposed, and a valid callback has arrived
C25_Witness ==
  \E l \in Logins :
    /\ login[l].pc = "waitCallback" /\ login[l].browser = "failed"
    /\ login[l].prom = "resolved"
    /\ loginFlowState = WAITING_AUTH /\ currentAuthUrl = l
    /\ currentState = AUTHENTICATING /\ ~loginCancelled

\* the requests to a path other than the callback path
OtherPathRequests == {req \in Requests : req.path # CALLBACK_PATH}

\* C26: the promise of waitForCallback resolves only on a request to the
\* callback path with no error parameter, a non-empty code and the expected
\* state; login() goes on to the token exchange only from a wait resolved that
\* way; the handler a wait registers answers 404 to every request to another
\* path, and such a request neither settles a wait (its timeout stays armed)
\* nor stops the server.
C26_ResolvesOnlyOnValidCallback ==
  [][/\ \A l \in Logins :
          (login[l].prom = "pending" /\ login'[l].prom = "resolved")
          => \A s \in Logins, req \in Requests :
               CallbackRequestWith(s, req)
               => /\ req.path = CALLBACK_PATH
                  /\ ~Truthy(req.error)
                  /\ Truthy(req.code)
                  /\ req.state = StateOf(l)
     /\ \A l \in Logins :
          (login[l].prom = "none" /\ login'[l].prom = "pending")
          => \A req \in Requests :
               req.path # CALLBACK_PATH
               => HandleRequest(req, StateOf(l)) = "notFound"
     /\ \A l \in Logins :
          ((login[l].prom = "pending" /\ login'[l].prom # "pending")
           \/ (server[l] = "listening" /\ server'[l] # "listening"))
          => \A s \in Logins, req \in OtherPathRequests :
               ~CallbackRequestWith(s, req)
     /\ \A l \in Logins :
          (login[l].pc # "exchange" /\ login'[l].pc = "exchange")
          => login[l].prom = "resolved"]_vars

\* an attempt is at the token exchange, its wait resolved by a valid callback
C26_Witness ==
  \E l \in Logins :
    /\ login[l].pc = "exchange" /\ login[l].prom = "resolved"
    /\ server[login[l].srv] = "closed"

TerminalFlow == {SUCCESS, FLOW_ERROR, CANCELLED}

\* an edge of the login-flow machine; a re-broadcast of the same state is no change
FlowEdge(a, b) ==
  \/ a = b
  \/ <<a, b>> \in {<<IDLE, PREPARING>>, <<PREPARING, OPENING_BROWSER>>,
                   <<OPENING_BROWSER, WAITING_AUTH>>,
                   <<WAITING_AUTH, EXCHANGING_TOKEN>>,
                   <<EXCHANGING_TOKEN, SUCCESS>>}
  \/ (a \notin TerminalFlow /\ b \in {FLOW_ERROR, CANCELLED})
  \/ (a \in TerminalFlow /\ b = PREPARING)

\* the login-flow state before the k-th broadcast of the step
FlowBefore(k) == IF k = 1 THEN loginFlowState ELSE flowEvents'[k - 1].state

\* C27: every LoginFlowState broadcast follows an edge of Idle -> Preparing ->
\* OpeningBrowser -> WaitingForAuthorization -> ExchangingToken -> Success, or
\* goes from a non-terminal state to Error or Cancelled; after Success, Error
\* or Cancelled the next different state broadcast is the Preparing of a newly
\* accepted login().
C27_FlowFollowsMachine ==
  [][\A k \in 1..Len(flowEvents') :
       FlowEdge(FlowBefore(k), flowEvents'[k].state)]_vars

\* the fetch cycles that are awaiting the token request of a refresh for id
RefreshesInFlight(id) ==
  {c \in Cycles : cycle[c].pc = "token" /\ CurrentId(Machine, c) = id}

\* C28: for every account at most one token-refresh request is in flight, also
\* when a scheduled poll cycle and refreshNow() overlap on the same account.
C28_AtMostOneRefreshInFlight ==
  \A id \in AccountIds : Cardinality(RefreshesInFlight(id)) <= 1

\* C29: the delay the poller waits before the n-th retry of a failing fetch
\* (n = 1, 2, 3) is n x 5 seconds.
C29_LinearRetryDelay ==
  \A c \in Cycles :
    cycle[c].pc = "delay" => cycle[c].wait = cycle[c].tries * 5


\* ---- KiroQuotaService: fetch cycles and their status events
\* A cycle is one top-level fetchQuota() with the retries nested in it; last is
\* the latest status it passed to statusCallback, tries the retries it made.
KiroCycles == 1..MaxCycles

\* KiroApiError.needsReauth()
KiroNeedsReauth(e) == e.status = 401 \/ e.status = 403

\* what apiClient.refreshToken and apiClient.getUsageLimits end with
KiroResponses ==
  {ApiOk(1)}
  \cup {ApiFail(ApiError(st)) : st \in {400, 401, 403, 429, 503}}
  \cup {ApiFail(PlainError)}

\* this.statusCallback?.(status), called by cycle c
StatusCallback(q, c, status) == [q EXCEPT !.cycle[c].last = status]

\* stopPolling(), called by cycle c
KiroStopPolling(q, c) ==
  StatusCallback([q EXCEPT !.timers = IF q.pollingTimer THEN @ - 1 ELSE @,
                           !.pollingTimer = FALSE,
                           !.isPolling = FALSE,
                           !.retryCount = 0], c, "idle")

\* the top-level fetchQuota() of cycle c has returned to its caller;
\* startPolling then installs the interval timer
KiroReturn(q, c) ==
  IF q.cycle[c].kind = "startPolling"
  THEN [q EXCEPT !.cycle[c].pc = "done", !.pollingTimer = TRUE, !.timers = @ + 1]
  ELSE [q EXCEPT !.cycle[c].pc = "done"]

\* fetchQuota() up to its first await, with the credentials of that moment
FetchQuota(q, c, credentials) ==
  IF ~KiroIsAuthenticated(credentials)
  THEN KiroReturn(q, c)
  ELSE StatusCallback([q EXCEPT !.cycle[c].pc = "refreshToken"], c, "fetching")

\* handleFetchError(error) up to its await of the delay, or to its return
KiroHandleFetchError(q, c, e) ==
  IF e.api /\ KiroNeedsReauth(e)
  THEN KiroReturn(KiroStopPolling(q, c), c)
  ELSE IF e.api /\ ~IsRetryable(e)
  THEN KiroReturn(StatusCallback(q, c, "idle"), c)
  ELSE IF q.retryCount < MAX_RETRIES
  THEN StatusCallback([q EXCEPT !.retryCount = @ + 1,
                                !.cycle[c].tries = @ + 1,
                                !.cycle[c].pc = "delay"], c, "retrying")
  ELSE KiroReturn(StatusCallback([q EXCEPT !.retryCount = 0], c, "idle"), c)

\* the end of fetchQuota()'s try block after getUsageLimits resolved
KiroFetched(q, c) ==
  KiroReturn(StatusCallback([q EXCEPT !.retryCount = 0], c, "idle"), c)

\* a cycle retries at most this often in the model (retryCount is shared and
\* reset by the other cycle, so the code itself sets no bound)
KiroWithinBound(q) == \A c \in KiroCycles : q.cycle[c].tries <= MAX_RETRIES + 1

KiroBegin(c, kind) ==
  /\ kiroQuota.cycle[c].pc = "idle"
  /\ \A d \in KiroCycles : d < c => kiroQuota.cycle[d].pc # "idle"
  /\ kiroQuota' = FetchQuota([kiroQuota EXCEPT !.cycle[c].kind = kind,
                                                !.isPolling = IF kind = "startPolling" THEN TRUE ELSE @],
                             c, kiroAuth.credentials)

KiroFrame == UNCHANGED <<authVars, pollVars, cb, probe, bus, flowVars, kiroListeners>>

\* startPolling(), from the boot sequence
KiroStartPolling ==
  /\ ~kiroQuota.isPolling
  /\ KiroIsAuthenticated(kiroAuth.credentials)
  /\ \E c \in KiroCycles : KiroBegin(c, "startPolling")
  /\ UNCHANGED kiroAuth
  /\ KiroFrame

\* refreshNow(), from the 'refresh-kiro-quota' handler
KiroRefreshNow ==
  /\ \E c \in KiroCycles : KiroBegin(c, "refreshNow")
  /\ UNCHANGED kiroAuth
  /\ KiroFrame

\* the interval callback of startPolling
KiroTimerTick ==
  /\ kiroQuota.timers > 0
  /\ \E c \in KiroCycles : KiroBegin(c, "timer")
  /\ UNCHANGED kiroAuth
  /\ KiroFrame

\* apiClient.refreshToken settles; on success updateAccessToken stores the token
KiroTokenWith(c, resp) ==
  /\ kiroQuota.cycle[c].pc = "refreshToken"
  /\ IF resp.ok
     THEN /\ kiroQuota' = [kiroQuota EXCEPT !.cycle[c].pc = "getUsageLimits"]
          /\ kiroAuth' = IF kiroAuth.credentials # NoCredentials
                         THEN [kiroAuth EXCEPT !.credentials.accessToken = "ka"]
                         ELSE kiroAuth
     ELSE /\ kiroQuota' = KiroHandleFetchError(kiroQuota, c, resp.err)
          /\ KiroWithinBound(kiroQuota')
          /\ UNCHANGED kiroAuth
  /\ KiroFrame

KiroTokenDone(c) == \E resp \in KiroResponses : KiroTokenWith(c, resp)

\* apiClient.getUsageLimits settles
KiroApiWith(c, resp) ==
  /\ kiroQuota.cycle[c].pc = "getUsageLimits"
  /\ kiroQuota' = IF resp.ok THEN KiroFetched(kiroQuota, c)
                  ELSE KiroHandleFetchError(kiroQuota, c, resp.err)
  /\ KiroWithinBound(kiroQuota')
  /\ UNCHANGED kiroAuth
  /\ KiroFrame

KiroApiDone(c) == \E resp \in KiroResponses : KiroApiWith(c, resp)

\* the retry delay elapses: handleFetchError calls fetchQuota() again
KiroDelayDone(c) ==
  /\ kiroQuota.cycle[c].pc = "delay"
  /\ kiroQuota' = FetchQuota(kiroQuota, c, kiroAuth.credentials)
  /\ UNCHANGED kiroAuth
  /\ KiroFrame

\* the 'reload-kiro-auth' handler: reload(), then startPolling() if it worked
ReloadKiroAuth ==
  /\ kiroAuth' = [kiroAuth EXCEPT
                    !.credentials = LoadCredentials(kiroAuth.file, @),
                    !.before = kiroAuth.credentials,
                    !.op = "reload",
                    !.ret = IF LoadSucceeds(kiroAuth.file) THEN "true" ELSE "false"]
  /\ IF /\ LoadSucceeds(kiroAuth.file)
        /\ KiroIsAuthenticated(kiroAuth'.credentials)
        /\ ~kiroQuota.isPolling
        /\ \E c \in KiroCycles : kiroQuota.cycle[c].pc = "idle"
     THEN \E c \in KiroCycles :
            /\ kiroQuota.cycle[c].pc = "idle"
            /\ \A d \in KiroCycles : d < c => kiroQuota.cycle[d].pc # "idle"
            /\ kiroQuota' = FetchQuota([kiroQuota EXCEPT !.cycle[c].kind = "startPolling",
                                                          !.isPolling = TRUE],
                                       c, kiroAuth'.credentials)
     ELSE UNCHANGED kiroQuota
  /\ KiroFrame

\* the credential files the quota runs are checked with
KiroQuotaFiles ==
  {f \in KiroFiles : f.kind \in {"absent", "unparsable"}
                     \/ (f.kind = "object" /\ f.accessToken = "ka" /\ f.profileArn = "arn")}

KiroQuotaFileChanges ==
  /\ \E f \in KiroQuotaFiles : f # kiroAuth.file /\ kiroAuth' = [kiroAuth EXCEPT !.file = f]
  /\ UNCHANGED kiroQuota
  /\ KiroFrame

\* after kiroAuthService.initialize() in the boot sequence
InitKiroQuota ==
  /\ accounts = <<>>
  /\ tokens = NoTokens
  /\ activeAccountId = Null
  /\ now = 0
  /\ booted = "ready"
  /\ currentState = NOT_AUTHENTICATED
  /\ loginFlowState = IDLE
  /\ loginCancelled = FALSE
  /\ callbackServer = 0
  /\ server = [l \in Logins |-> "none"]
  /\ login = [l \in Logins |-> NewLogin]
  /\ call = [c \in Calls |-> NewCall]
  /\ InitPoller
  /\ cb = [req |-> Request(Null, Null, Null, Null), expected |-> Null, out |-> "none"]
  /\ probe = NoProbe
  /\ bus = NoBus
  /\ \E f \in KiroQuotaFiles :
       kiroAuth = [file |-> f, credentials |-> LoadCredentials(f, NoCredentials),
                   before |-> NoCredentials, op |-> "initialize",
                   ret |-> IF LoadSucceeds(f) THEN "true" ELSE "false"]
  /\ kiroQuota = NoKiroQuota
  /\ kiroListeners = NoKiroListeners
  /\ currentAuthUrl = 0
  /\ flowEvents = <<>>

NextKiroQuota ==
  \/ KiroStartPolling
  \/ KiroRefreshNow
  \/ KiroTimerTick
  \/ \E c \in KiroCycles : KiroTokenDone(c)
  \/ \E c \in KiroCycles : KiroApiDone(c)
  \/ \E c \in KiroCycles : KiroDelayDone(c)
  \/ ReloadKiroAuth
  \/ KiroQuotaFileChanges

SpecKiroQuota == InitKiroQuota /\ [][NextKiroQuota]_vars

\* C30: every fetch cycle that emitted 'fetching' and has returned emitted
\* 'idle' as its last status event (the part of the claim about
\* KiroQuotaService; the calls of the cycle have all returned by then)
C30_CycleEndsIdle ==
  \A c \in KiroCycles :
    (kiroQuota.cycle[c].pc = "done" /\ kiroQuota.cycle[c].last # "none")
      => kiroQuota.cycle[c].last = "idle"


\* ---- KiroAuthService.authStateListeners: an array, walked by for...of
\* for (const listener of this.authStateListeners) { try { listener(state) }
\* catch {...} }: the array iterator reads index i of the array as it is at
\* that moment; a listener that calls its unsubscribe function splices itself
\* out, which moves the later entries one index down
RECURSIVE KiroForOf(_, _, _)
KiroForOf(arr, i, delivered) ==
  IF i > Len(arr) THEN [listeners |-> arr, delivered |-> delivered]
  ELSE LET l == arr[i]
       IN KiroForOf(IF l.does = "unsubscribes" THEN Without(arr, l.id) ELSE arr,
                    i + 1, Append(delivered, l.id))

\* notifyAuthStateChange()
NotifyAuthStateChange(ls) ==
  LET r == KiroForOf(ls.listeners, 1, <<>>)
  IN [listeners |-> r.listeners, before |-> ls.listeners, delivered |-> r.delivered]

KiroNotifyFrame == UNCHANGED <<authVars, pollVars, cb, probe, bus, flowVars, kiroQuota>>

\* KiroAuthService.onAuthStateChange(callback)
KiroOnAuthStateChange(does) ==
  /\ Len(kiroListeners.listeners) < MaxListeners
  /\ kiroListeners' =
       [NoKiroListeners EXCEPT
          !.listeners = Append(kiroListeners.listeners,
                               Listener(FreshId(kiroListeners.listeners), does))]
  /\ UNCHANGED kiroAuth
  /\ KiroNotifyFrame

\* the function onAuthStateChange returned, called outside a broadcast (again,
\* when the callback is no longer in the array: indexOf gives -1)
KiroUnsubscribe(id) ==
  /\ kiroListeners' =
       [NoKiroListeners EXCEPT !.listeners = Without(kiroListeners.listeners, id)]
  /\ UNCHANGED kiroAuth
  /\ KiroNotifyFrame

\* reload(): loadCredentials() ends every path with notifyAuthStateChange()
KiroReloadNotify ==
  /\ kiroAuth' = [kiroAuth EXCEPT
                    !.credentials = LoadCredentials(kiroAuth.file, @),
                    !.before = kiroAuth.credentials,
                    !.op = "reload",
                    !.ret = IF LoadSucceeds(kiroAuth.file) THEN "true" ELSE "false"]
  /\ kiroListeners' = NotifyAuthStateChange(kiroListeners)
  /\ KiroNotifyFrame

KiroNotifyFileChanges ==
  /\ \E f \in KiroQuotaFiles : f # kiroAuth.file /\ kiroAuth' = [kiroAuth EXCEPT !.file = f]
  /\ UNCHANGED kiroListeners
  /\ KiroNotifyFrame

NextKiroNotify ==
  \/ \E d \in Behaviours : KiroOnAuthStateChange(d)
  \/ \E id \in 1..MaxListeners : KiroUnsubscribe(id)
  \/ KiroReloadNotify
  \/ KiroNotifyFileChanges

SpecKiroNotify == InitKiroQuota /\ [][NextKiroNotify]_vars

\* C31: when a state change is broadcast, every subscriber registered at the
\* start of the broadcast is notified, also when one of them unsubscribes
\* itself during the broadcast (KiroAuthService)
C31_AllRegisteredNotified ==
  \A k \in 1..Len(kiroListeners.before) :
    \E j \in 1..Len(kiroListeners.delivered) :
      kiroListeners.delivered[j] = kiroListeners.before[k].id


\* C32: a polling timer of QuotaService is active only while isPolling is true
C32_TimerOnlyWhilePolling == timers > 0 => isPolling

\* C33: at most one polling timer of QuotaService is active
C33_AtMostOneTimer == timers <= 1


\* C34: a fetch that is given up as exhausted was granted exactly 3 retries
\* (it failed 4 times), whatever happened to other accounts and other cycles
C34_ThreeRetriesPerFetch ==
  \A k \in 1..Len(events) :
    events[k].why = "exhausted" => events[k].fails = MAX_RETRIES + 1


\* C35: the step in which an earlier, cancelled login() call completes (its
\* catch and finally blocks) does not stop the listener of a later attempt
\* that is in flight and leaves LoginFlowState and AuthState as they are
C35_LateCompletionLeavesLaterAttempt ==
  [][\A l1, l2 \in Logins :
       (/\ l1 < l2
        /\ login[l1].cancelled
        /\ InFlight(l1) /\ login'[l1].pc = "done"
        /\ InFlight(l2))
       => /\ server'[l2] = server[l2]
          /\ loginFlowState' = loginFlowState
          /\ currentState' = currentState]_vars


\* C36: AuthState NotAuthenticated implies an empty roster and AuthState
\* Authenticated implies a non-empty roster (the poller running, initialize() done)
C36_AuthStateMatchesRoster ==
  /\ currentState = NOT_AUTHENTICATED => Len(accounts) = 0
  /\ currentState = AUTHENTICATED => Len(accounts) > 0


\* the ids that have a persisted token record
TokenIds(tks) == {id \in AccountIds : HasToken(tks, id)}

\* C37: the ids with a persisted token record are exactly the ids of the roster
C37_TokenPerAccount == TokenIds(tokens) = Ids(accounts)

\* a login has stored an account and its token, and logout has deleted every
\* account and token since
C37_Witness ==
  /\ \E l \in Logins : login[l].ret = "true"
  /\ accounts = <<>>
  /\ TokenIds(tokens) = {}


\* ---- setActiveAccount(accountId), from the 'set-active-account' handler: the
\* renderer passes the id of an account it lists, which may have been logged
\* out since
SetActiveAccount(accountId) ==
  /\ booted = "ready"
  /\ activeAccountId' = accountId
  /\ UNCHANGED <<accounts, tokens, now, booted, currentState, loginFlowState,
                 loginCancelled, callbackServer, server, login, call, pollVars,
                 cb, probe, bus, kiroVars>>
  /\ NoBroadcast

\* the operations that write the roster or the active id: initialize(), the
\* steps of login(), logout and setActiveAccount
NextActive ==
  \/ Initialize
  \/ InitializeRefreshed
  \/ \E l \in Logins : LoginCall(l)
  \/ \E l \in Logins : StartServerResolved(l)
  \/ \E l \in Logins : StartServerRejected(l)
  \/ \E l \in Logins : OpenBrowserDone(l)
  \/ \E s \in Logins : CallbackRequest(s)
  \/ \E l \in Logins : CallbackTimeout(l)
  \/ \E l \in Logins : CallbackSettled(l)
  \/ \E l \in Logins : ExchangeDone(l)
  \/ \E l \in Logins : UserInfoDone(l)
  \/ \E a \in AccountIds \cup {Null} : Logout(a)
  \/ \E a \in AccountIds : SetActiveAccount(a)

SpecActive == Init /\ [][NextActive]_vars

\* C38: the active-account id is unset or the id of an account in the roster,
\* and it is set whenever the roster is non-empty
C38_ActiveIdInRoster ==
  /\ Truthy(activeAccountId) => activeAccountId \in Ids(accounts)
  /\ Len(accounts) > 0 => Truthy(activeAccountId)


\* C39: when the token refresh of a cycle settles for an account that has no
\* token record any more (logout deleted it), no token record and no roster
\* entry is created, and the refresh ends as an error of the fetch: a retry
\* is scheduled or an error event is published, the fetch does not go on
C39_LateRefreshCreatesNothing ==
  [][\A c \in Cycles :
       (/\ cycle[c].pc = "token"
        /\ ~HasToken(tokens, CurrentId(Machine, c))
        /\ \E resp \in RefreshResponses : CycleTokenWith(c, resp))
       => /\ tokens' = tokens
          /\ accounts' = accounts
          /\ \/ /\ cycle'[c].pc = "delay"
                /\ cycle'[c].tries = cycle[c].tries + 1
                /\ currentState' = TOKEN_EXPIRED
             \/ \E k \in 1..Len(events') :
                  /\ events'[k].id = CurrentId(Machine, c)
                  /\ events'[k].out = "error"]_vars

\* the refresh of a deleted account has ended as an error: its cycle waits to
\* retry, AuthState is TokenExpired and the account has neither token nor
\* roster entry
C39_Witness ==
  \E c \in Cycles :
    /\ cycle[c].pc = "delay"
    /\ currentState = TOKEN_EXPIRED
    /\ ~HasToken(tokens, CurrentId(Machine, c))
    /\ CurrentId(Machine, c) \notin Ids(accounts)


\* C40: every account id that has a snapshot in the cache is the id of an
\* account in the roster
C40_CacheKeysInRoster ==
  \A id \in AccountIds : quotaCache[id] # 0 => id \in Ids(accounts)

====
